---------------------------- MODULE Spec2Model ----------------------------
(***************************************************************************)
(* A model of the annotation pipeline and state loader of schematic:       *)
(*   - parseAnnotation / parseArguments / splitArguments / parseValue      *)
(*   - the index schema validator and the schema registry                  *)
(*   - extract / getAnnotations                                            *)
(*   - resolveAndLoadFile / resolveFilePath / loadState                    *)
(* Texts are sequences of one-character strings, so that the scanners are  *)
(* modelled character by character as the code runs them.  JSON values are *)
(* tagged records [t |-> <type>, v |-> <payload>].                         *)
(***************************************************************************)
EXTENDS Integers, Sequences, FiniteSets, TLC

VARIABLES
    \* ---- extract (src/src/state/extractor.ts)
    dmmf,          \* the model document: a sequence of [name, documentation]
    prefix,        \* config.annotationPrefix
    xpc,           \* position of extract: "idle", "collect", "validate", "done"
    mi,            \* index of the model getAnnotations is at
    pending,       \* filtered lines of the current model still to be parsed
    annotations,   \* getAnnotations' result so far
    ei,            \* index of the annotation extract's forEach is at
    extractions,   \* extract's `extractions` array
    xres,          \* outcome of extract: pending, returned value or thrown error
    written,       \* the annotation a one-line document was written from
    \* ---- loadState (src/src/state/loader.ts) and its environment
    disk,          \* the file system: absolute path -> state of the file
    calls,         \* one record per invocation of loadState
    \* ---- buildState (src/src/state/builder.ts) and its environment
    now,           \* the clock: milliseconds since the first instant modelled
    bpc,           \* position of buildState: "idle", "extract"
    snapshots,     \* the outcomes of the calls of buildState, in call order
    \* ---- one application of a function of annotation.utils
    pin,           \* the function applied and its arguments
    pout,          \* its outcome
    \* ---- generate (src/src/generator/generate.ts)
    gen            \* the call of generate: its options, position, steps, outcome

xvars == <<dmmf, prefix, xpc, mi, pending, annotations, ei, extractions, xres,
           written>>
lvars == <<disk, calls>>
bvars == <<now, bpc, snapshots>>
pvars == <<pin, pout>>
gvars == <<gen>>
vars == <<dmmf, prefix, xpc, mi, pending, annotations, ei, extractions, xres,
          written, disk, calls, now, bpc, snapshots, pin, pout, gen>>

-----------------------------------------------------------------------------
(* Bounds of the model.                                                    *)

\* Largest number of arguments of an annotation line drawn at Init.
MaxArgs == 2
\* Largest number of models of a document drawn at Init.
MaxModels == 2
\* Largest number of calls of buildState on one document.
MaxBuilds == 2
\* Largest number of milliseconds that pass in a behaviour.
MaxTicks == 2

-----------------------------------------------------------------------------
(* Strings: String.prototype.trim, indexOf, startsWith, split.             *)

\* White space removed by trim() that occurs in the model's alphabet.
WhiteSpace == {" ", "\n", "\t", "\r"}

RECURSIVE TrimStart(_)
TrimStart(s) ==
    IF s # <<>> /\ Head(s) \in WhiteSpace THEN TrimStart(Tail(s)) ELSE s

RECURSIVE TrimEnd(_)
TrimEnd(s) ==
    IF s # <<>> /\ s[Len(s)] \in WhiteSpace
    THEN TrimEnd(SubSeq(s, 1, Len(s) - 1))
    ELSE s

Trim(s) == TrimEnd(TrimStart(s))

\* s.startsWith(w)
StartsWith(s, w) == Len(w) <= Len(s) /\ SubSeq(s, 1, Len(w)) = w

\* whether w occurs in s at position i (1-based)
StartsAt(s, i, w) ==
    i + Len(w) - 1 <= Len(s) /\ SubSeq(s, i, i + Len(w) - 1) = w

\* s.indexOf(c), 1-based; 0 when c does not occur (JavaScript's -1)
IndexOf(s, c) ==
    IF \E i \in 1..Len(s) : s[i] = c
    THEN CHOOSE i \in 1..Len(s) : s[i] = c /\ \A j \in 1..(i - 1) : s[j] # c
    ELSE 0

\* s.split(c)
RECURSIVE SplitOn(_, _)
SplitOn(s, c) ==
    LET i == IndexOf(s, c) IN
    IF i = 0 THEN <<s>>
    ELSE <<SubSeq(s, 1, i - 1)>> \o SplitOn(SubSeq(s, i + 1, Len(s)), c)

\* parts.join(sep)
RECURSIVE Join(_, _)
Join(parts, sep) ==
    IF parts = <<>> THEN <<>>
    ELSE IF Len(parts) = 1 THEN parts[1]
    ELSE parts[1] \o sep \o Join(Tail(parts), sep)

-----------------------------------------------------------------------------
(* JSON values, JSON.parse and the text of a JSON literal.                 *)

Str(cs) == [t |-> "string", v |-> cs]
Num(n) == [t |-> "number", v |-> n]
Bool(b) == [t |-> "boolean", v |-> b]
Null == [t |-> "null", v |-> 0]
Arr(xs) == [t |-> "array", v |-> xs]
\* an object is the sequence of its [k, val] entries, in insertion order
Obj(es) == [t |-> "object", v |-> es]
Undefined == [t |-> "undefined", v |-> 0]

DigitChars == <<"0", "1", "2", "3", "4", "5", "6", "7", "8", "9">>
Digits == {DigitChars[i] : i \in DOMAIN DigitChars}
DigitVal(c) == (CHOOSE i \in DOMAIN DigitChars : DigitChars[i] = c) - 1

\* the escapes of a JSON string that occur in the model's alphabet
JsonEscapes ==
    ("\"" :> "\"") @@ ("\\" :> "\\") @@ ("/" :> "/") @@
    ("n" :> "\n") @@ ("t" :> "\t") @@ ("r" :> "\r")

JsonFail == [ok |-> FALSE, v |-> Undefined, i |-> 0]
JsonOk(val, next) == [ok |-> TRUE, v |-> val, i |-> next]

RECURSIVE SkipWs(_, _)
SkipWs(s, i) == IF i <= Len(s) /\ s[i] \in {" ", "\n", "\t", "\r"} THEN SkipWs(s, i + 1) ELSE i

\* the string literal whose opening quote is before position i
RECURSIVE JsonString(_, _)
JsonString(s, i) ==
    IF i > Len(s) THEN JsonFail
    ELSE IF s[i] = "\"" THEN JsonOk(Str(<<>>), i + 1)
    ELSE IF s[i] = "\\" THEN
        IF i + 1 <= Len(s) /\ s[i + 1] \in DOMAIN JsonEscapes
        THEN LET rest == JsonString(s, i + 2)
             IN  IF rest.ok
                 THEN JsonOk(Str(<<JsonEscapes[s[i + 1]]>> \o rest.v.v), rest.i)
                 ELSE JsonFail
        ELSE JsonFail
    ELSE IF s[i] \in {"\n", "\t", "\r"} THEN JsonFail
    ELSE LET rest == JsonString(s, i + 1)
         IN  IF rest.ok THEN JsonOk(Str(<<s[i]>> \o rest.v.v), rest.i)
             ELSE JsonFail

RECURSIVE JsonDigits(_, _, _)
JsonDigits(s, i, acc) ==
    IF i <= Len(s) /\ s[i] \in Digits
    THEN JsonDigits(s, i + 1, acc * 10 + DigitVal(s[i]))
    ELSE [v |-> acc, i |-> i]

\* an integer literal: -?(0|[1-9][0-9]*); fractions and exponents are outside
\* the alphabet of the model's inputs
JsonNumber(s, i) ==
    LET neg == s[i] = "-"
        j == IF neg THEN i + 1 ELSE i
    IN  IF j > Len(s) \/ s[j] \notin Digits THEN JsonFail
        ELSE IF s[j] = "0" THEN JsonOk(Num(0), j + 1)
        ELSE LET d == JsonDigits(s, j, 0)
             IN  JsonOk(Num(IF neg THEN 0 - d.v ELSE d.v), d.i)

\* obj[k] = val on a sequence of entries: replaces the value of an existing
\* key in place, appends a new key
PutEntry(es, k, val) ==
    IF \E n \in DOMAIN es : es[n].k = k
    THEN [n \in DOMAIN es |-> IF es[n].k = k THEN [k |-> k, val |-> val] ELSE es[n]]
    ELSE Append(es, [k |-> k, val |-> val])

RECURSIVE JsonValue(_, _), JsonArray(_, _, _), JsonObject(_, _, _)
JsonValue(s, i0) ==
    LET i == SkipWs(s, i0) IN
    IF i > Len(s) THEN JsonFail
    ELSE IF s[i] = "\"" THEN JsonString(s, i + 1)
    ELSE IF s[i] = "[" THEN
        LET j == SkipWs(s, i + 1) IN
        IF j <= Len(s) /\ s[j] = "]" THEN JsonOk(Arr(<<>>), j + 1)
        ELSE JsonArray(s, i + 1, <<>>)
    ELSE IF s[i] = "{" THEN
        LET j == SkipWs(s, i + 1) IN
        IF j <= Len(s) /\ s[j] = "}" THEN JsonOk(Obj(<<>>), j + 1)
        ELSE JsonObject(s, i + 1, <<>>)
    ELSE IF StartsAt(s, i, <<"t", "r", "u", "e">>) THEN JsonOk(Bool(TRUE), i + 4)
    ELSE IF StartsAt(s, i, <<"f", "a", "l", "s", "e">>) THEN JsonOk(Bool(FALSE), i + 5)
    ELSE IF StartsAt(s, i, <<"n", "u", "l", "l">>) THEN JsonOk(Null, i + 4)
    ELSE IF s[i] = "-" \/ s[i] \in Digits THEN JsonNumber(s, i)
    ELSE JsonFail

\* the elements of an array from position i on, up to the closing bracket
JsonArray(s, i, acc) ==
    LET e == JsonValue(s, i) IN
    IF ~e.ok THEN JsonFail
    ELSE LET j == SkipWs(s, e.i) IN
         IF j > Len(s) THEN JsonFail
         ELSE IF s[j] = "," THEN JsonArray(s, j + 1, Append(acc, e.v))
         ELSE IF s[j] = "]" THEN JsonOk(Arr(Append(acc, e.v)), j + 1)
         ELSE JsonFail

\* the entries of an object from position i on, up to the closing brace
JsonObject(s, i, acc) ==
    LET q == SkipWs(s, i) IN
    IF q > Len(s) \/ s[q] # "\"" THEN JsonFail
    ELSE LET k == JsonString(s, q + 1) IN
         IF ~k.ok THEN JsonFail
         ELSE LET c == SkipWs(s, k.i) IN
              IF c > Len(s) \/ s[c] # ":" THEN JsonFail
              ELSE LET e == JsonValue(s, c + 1) IN
                   IF ~e.ok THEN JsonFail
                   ELSE LET j == SkipWs(s, e.i) IN
                        IF j > Len(s) THEN JsonFail
                        ELSE IF s[j] = ","
                             THEN JsonObject(s, j + 1, PutEntry(acc, k.v.v, e.v))
                        ELSE IF s[j] = "}"
                             THEN JsonOk(Obj(PutEntry(acc, k.v.v, e.v)), j + 1)
                        ELSE JsonFail

\* JSON.parse(text): [ok |-> TRUE, v |-> value], or ok = FALSE for a SyntaxError
JSONParse(text) ==
    LET r == JsonValue(text, 1) IN
    IF r.ok /\ SkipWs(text, r.i) > Len(text)
    THEN [ok |-> TRUE, v |-> r.v]
    ELSE [ok |-> FALSE, v |-> Undefined]

RECURSIVE NatText(_)
NatText(n) ==
    IF n < 10 THEN <<DigitChars[n + 1]>>
    ELSE NatText(n \div 10) \o <<DigitChars[(n % 10) + 1]>>

NumText(n) == IF n < 0 THEN <<"-">> \o NatText(0 - n) ELSE NatText(n)

\* the inverse of JsonEscapes, for the characters a literal must escape
RECURSIVE EscapeText(_)
EscapeText(cs) ==
    IF cs = <<>> THEN <<>>
    ELSE IF Len(cs) = 1
    THEN (CASE cs[1] = "\"" -> <<"\\", "\"">>
            [] cs[1] = "\\" -> <<"\\", "\\">>
            [] cs[1] = "\n" -> <<"\\", "n">>
            [] cs[1] = "\t" -> <<"\\", "t">>
            [] cs[1] = "\r" -> <<"\\", "r">>
            [] OTHER -> cs)
    ELSE LET half == Len(cs) \div 2
         IN  EscapeText(SubSeq(cs, 1, half))
             \o EscapeText(SubSeq(cs, half + 1, Len(cs)))

QuoteText(cs) == <<"\"">> \o EscapeText(cs) \o <<"\"">>

\* the text of the JSON literal of x, its items separated by sep
\* (sep = "," is JSON.stringify(x); annotations are written with ", ")
RECURSIVE JsonText(_, _)
JsonText(x, sep) ==
    CASE x.t = "string" -> QuoteText(x.v)
      [] x.t = "number" -> NumText(x.v)
      [] x.t = "boolean" ->
            IF x.v THEN <<"t", "r", "u", "e">> ELSE <<"f", "a", "l", "s", "e">>
      [] x.t = "null" -> <<"n", "u", "l", "l">>
      [] x.t = "array" ->
            <<"[">> \o Join([n \in DOMAIN x.v |-> JsonText(x.v[n], sep)], sep)
                    \o <<"]">>
      [] x.t = "object" ->
            <<"{">> \o Join([n \in DOMAIN x.v |->
                               QuoteText(x.v[n].k) \o <<":">> \o
                               JsonText(x.v[n].val, sep)], sep)
                    \o <<"}">>

-----------------------------------------------------------------------------
(* Thrown values.  A message is the sequence of the fragments its template *)
(* literal concatenates, each a string.                                    *)

\* the string of a text, put together by halves
RECURSIVE ToStr(_)
ToStr(cs) ==
    IF cs = <<>> THEN ""
    ELSE IF Len(cs) = 1 THEN cs[1]
    ELSE LET half == Len(cs) \div 2
         IN  ToStr(SubSeq(cs, 1, half)) \o ToStr(SubSeq(cs, half + 1, Len(cs)))

\* A thrown value: an Error (name, message; a ZodError also has issues), or
\* any other value, thrown as it is (name = "NotAnError").
Thrown(name, message, issues, value) ==
    [name |-> name, message |-> message, issues |-> issues, value |-> value]

\* new Error(message)
NewError(message) == Thrown("Error", message, {}, Undefined)

\* the result of a call that returned v
Returned(v) == [ok |-> TRUE, v |-> v, err |-> NewError(<<>>)]
\* the result of a call that threw e
Threw(e) == [ok |-> FALSE, v |-> Undefined, err |-> e]

-----------------------------------------------------------------------------
(* The annotation parser (annotation.utils).                               *)

K_schematic_type == <<"_", "s", "c", "h", "e", "m", "a", "t", "i", "c", "_", "t", "y", "p", "e">>
K_model == <<"m", "o", "d", "e", "l">>
K_name == <<"n", "a", "m", "e">>
K_fields == <<"f", "i", "e", "l", "d", "s">>
K_type == <<"t", "y", "p", "e">>
K_where == <<"w", "h", "e", "r", "e">>
K_proto == <<"_", "_", "p", "r", "o", "t", "o", "_", "_">>

\* the class \w of a regular expression
WordChars ==
    {"a", "b", "c", "d", "e", "f", "g", "h", "i", "j", "k", "l", "m", "n", "o", "p", "q", "r", "s", "t", "u", "v", "w", "x", "y", "z",
     "A", "B", "C", "D", "E", "F", "G", "H", "I", "J", "K", "L", "M", "N", "O", "P", "Q", "R", "S", "T", "U", "V", "W", "X", "Y", "Z"} \cup Digits \cup {"_"}

\* parseValue without the trim
parseValueUntrimmed(value) ==
    LET r == JSONParse(value)
    IN  IF r.ok THEN r.v ELSE Str(value)

\* parseValue: JSON.parse of the trimmed text, the trimmed text itself when
\* JSON.parse throws
parseValue(value) ==
    LET trimmed == Trim(value)
        r == JSONParse(trimmed)
    IN  IF r.ok THEN r.v ELSE Str(trimmed)

\* the state of splitArguments' scan before the first character
SplitStart ==
    [parts |-> <<>>, current |-> <<>>, quoteChar |-> "", bracketDepth |-> 0]

\* an iteration whose depth never goes below zero: a closer without opener
\* is not counted
SplitCharClamped(st, char) ==
    LET quote ==
            IF char \in {"\"", "'"} /\ st.quoteChar = "" THEN char
            ELSE IF char = st.quoteChar THEN ""
            ELSE st.quoteChar
        depth ==
            IF quote = ""
            THEN IF char \in {"[", "{"} THEN st.bracketDepth + 1
                 ELSE IF char \in {"]", "}"} /\ st.bracketDepth > 0
                 THEN st.bracketDepth - 1
                 ELSE st.bracketDepth
            ELSE st.bracketDepth
    IN  IF char = "," /\ quote = "" /\ depth = 0
        THEN [parts |-> Append(st.parts, st.current), current |-> <<>>,
              quoteChar |-> quote, bracketDepth |-> depth]
        ELSE [parts |-> st.parts, current |-> Append(st.current, char),
              quoteChar |-> quote, bracketDepth |-> depth]

\* one iteration of the loop of splitArguments
SplitChar(st, char) ==
    LET quote ==
            IF char \in {"\"", "'"} /\ st.quoteChar = "" THEN char
            ELSE IF char = st.quoteChar THEN ""
            ELSE st.quoteChar
        depth ==
            IF quote = ""
            THEN st.bracketDepth
                 + (IF char \in {"[", "{"} THEN 1 ELSE 0)
                 - (IF char \in {"]", "}"} THEN 1 ELSE 0)
            ELSE st.bracketDepth
    IN  IF char = "," /\ quote = "" /\ depth = 0
        THEN [parts |-> Append(st.parts, st.current), current |-> <<>>,
              quoteChar |-> quote, bracketDepth |-> depth]
        ELSE [parts |-> st.parts, current |-> Append(st.current, char),
              quoteChar |-> quote, bracketDepth |-> depth]

\* the loop of splitArguments over the characters of str, from the state st:
\* the first half of str is scanned to its end, then the second half from
\* the state the first left
RECURSIVE SplitScan(_, _)
SplitScan(st, str) ==
    IF str = <<>> THEN st
    ELSE IF Len(str) = 1 THEN SplitChar(st, str[1])
    ELSE LET half == Len(str) \div 2
             left == SplitScan(st, SubSeq(str, 1, half))
         IN  IF left.bracketDepth \in Int
             THEN SplitScan(left, SubSeq(str, half + 1, Len(str)))
             ELSE left

\* splitArguments returning its segments trimmed
splitArgumentsTrimmed(str) ==
    LET st == SplitScan(SplitStart, str)
        parts == IF Trim(st.current) # <<>> THEN Append(st.parts, st.current)
                 ELSE st.parts
    IN  [k \in DOMAIN parts |-> Trim(parts[k])]

splitArguments(str) ==
    LET st == SplitScan(SplitStart, str)
    IN  IF Trim(st.current) # <<>> THEN Append(st.parts, st.current) ELSE st.parts

\* result[key] = value on an object given as a function from its own keys;
\* assigning to __proto__ creates no own key
SetKey(result, key, value) ==
    IF key = K_proto THEN result
    ELSE [k \in DOMAIN result \cup {key} |-> IF k = key THEN value ELSE result[k]]

\* the loop of parseArguments over the pairs
RECURSIVE ParsePairs(_, _)
ParsePairs(result, pairs) ==
    IF pairs = <<>> THEN result
    ELSE LET pair == Head(pairs)
             colonIndex == IndexOf(pair, ":")
         IN  IF colonIndex = 0 THEN ParsePairs(result, Tail(pairs))
             ELSE ParsePairs(
                    SetKey(result,
                           Trim(SubSeq(pair, 1, colonIndex - 1)),
                           parseValue(Trim(SubSeq(pair, colonIndex + 1, Len(pair))))),
                    Tail(pairs))

parseArguments(argsStr) ==
    IF Trim(argsStr) = <<>> THEN <<>>
    ELSE ParsePairs(<<>>, splitArguments(argsStr))

\* { ...a, ...b }: the keys of b override those of a
Spread(a, b) ==
    [k \in DOMAIN a \cup DOMAIN b |-> IF k \in DOMAIN b THEN b[k] ELSE a[k]]

RECURSIVE WordPrefixLen(_)
WordPrefixLen(s) ==
    IF s # <<>> /\ Head(s) \in WordChars THEN 1 + WordPrefixLen(Tail(s)) ELSE 0

\* the call form without the anchor at the end
MatchCallOpen(s) ==
    LET n == WordPrefixLen(s)
    IN  IF n >= 1 /\ n + 2 <= Len(s) /\ s[n + 1] = "("
        THEN [ok |-> TRUE, type |-> SubSeq(s, 1, n),
              argsStr |-> SubSeq(s, n + 2, Len(s) - 1)]
        ELSE [ok |-> FALSE, type |-> <<>>, argsStr |-> <<>>]

\* withoutPrefix.match(/^(\w+)\((.*)\)$/s)
MatchCall(s) ==
    LET n == WordPrefixLen(s)
    IN  IF n >= 1 /\ n + 2 <= Len(s) /\ s[n + 1] = "(" /\ s[Len(s)] = ")"
        THEN [ok |-> TRUE, type |-> SubSeq(s, 1, n),
              argsStr |-> SubSeq(s, n + 2, Len(s) - 1)]
        ELSE [ok |-> FALSE, type |-> <<>>, argsStr |-> <<>>]

\* the text the pattern ^@<annotationPrefix>\. matches (the prefix is an
\* identifier)
PrefixToken(annotationPrefix) == <<"@">> \o annotationPrefix \o <<".">>

parseAnnotation(annotation, annotationPrefix) ==
    LET cleaned == Trim(annotation)
        token == PrefixToken(annotationPrefix)
        withoutPrefix == SubSeq(cleaned, Len(token) + 1, Len(cleaned))
        match == MatchCall(withoutPrefix)
    IN  IF ~StartsWith(cleaned, token)
        THEN Threw(NewError(<<"Annotation must start with @",
                              ToStr(annotationPrefix), ". Got: ",
                              ToStr(annotation)>>))
        ELSE IF ~match.ok
        THEN Threw(NewError(<<"Invalid annotation format: ", ToStr(annotation),
                              ". Expected format: @", ToStr(annotationPrefix),
                              ".<type>(<args>)">>))
        ELSE Returned(Spread((K_schematic_type :> Str(match.type)),
                             parseArguments(match.argsStr)))

-----------------------------------------------------------------------------
(* The index schema (zod) and the schema registry.                         *)

K_index == <<"i", "n", "d", "e", "x">>
K_toString == <<"t", "o", "S", "t", "r", "i", "n", "g">>
K_constructor == <<"c", "o", "n", "s", "t", "r", "u", "c", "t", "o", "r">>
K_valueOf == <<"v", "a", "l", "u", "e", "O", "f">>

\* an object whose own keys and values are those of the function f
Rec(f) == [t |-> "record", v |-> f]

\* z.enum(['id', 'unique', 'normal'])
IndexTypes == {<<"i", "d">>, <<"u", "n", "i", "q", "u", "e">>, <<"n", "o", "r", "m", "a", "l">>}

\* the keys of BaseSchema.extend({...})
ShapeKeys == {K_schematic_type, K_model, K_name, K_fields, K_type, K_where}

Issue(code, path, keys) == [code |-> code, path |-> path, keys |-> keys]

ZodError(issues) == Thrown("ZodError", <<>>, issues, Undefined)

\* z.string() on the key
RequiredString(value, key) ==
    IF key \in DOMAIN value /\ value[key].t = "string" THEN {}
    ELSE {Issue("invalid_type", ToStr(key), {})}

\* z.string().optional() on the key
OptionalString(value, key) ==
    IF key \notin DOMAIN value \/ value[key].t = "string" THEN {}
    ELSE {Issue("invalid_type", ToStr(key), {})}

\* z.array(z.string()).min(1, ...) on `fields`
FieldsIssues(value) ==
    IF K_fields \notin DOMAIN value \/ value[K_fields].t # "array"
    THEN {Issue("invalid_type", "fields", {})}
    ELSE LET items == value[K_fields].v IN
         (IF \E n \in DOMAIN items : items[n].t # "string"
          THEN {Issue("invalid_type", "fields", {})} ELSE {})
         \cup
         (IF Len(items) < 1 THEN {Issue("too_small", "fields", {})} ELSE {})

\* z.enum([...]).optional() on `type`
TypeIssues(value) ==
    IF K_type \notin DOMAIN value THEN {}
    ELSE IF value[K_type].t # "string" THEN {Issue("invalid_type", "type", {})}
    ELSE IF value[K_type].v \notin IndexTypes
    THEN {Issue("invalid_enum_value", "type", {})}
    ELSE {}

\* a schema without .strict(): keys outside the shape raise no issue
StripIssues(value) == {}

\* .strict(): the keys of the input that the shape does not have
StrictIssues(value) ==
    IF DOMAIN value \subseteq ShapeKeys THEN {}
    ELSE {Issue("unrecognized_keys", "", DOMAIN value \ ShapeKeys)}

IndexIssues(value) ==
    RequiredString(value, K_schematic_type) \cup RequiredString(value, K_model)
    \cup OptionalString(value, K_name) \cup FieldsIssues(value)
    \cup TypeIssues(value) \cup OptionalString(value, K_where)
    \cup StrictIssues(value)

\* validate = IndexSchema.parse(value): the parsed object, made of the shape's
\* keys present in the input, or a thrown ZodError
validate(value) ==
    LET issues == IndexIssues(value)
    IN  IF issues = {}
        THEN Returned(Rec([k \in DOMAIN value \cap ShapeKeys |-> value[k]]))
        ELSE Threw(ZodError(issues))

\* the own keys of `schemas`
SchemaKeys == {K_index}

\* the keys `schemas` inherits from Object.prototype (those that occur in the
\* model's inputs)
ObjectPrototypeKeys == {K_toString, K_constructor, K_valueOf, K_proto}

\* String(v) of a JavaScript value
RECURSIVE ToJsString(_)
ToJsString(x) ==
    CASE x.t = "string" -> x.v
      [] x.t = "number" -> NumText(x.v)
      [] x.t = "boolean" -> JsonText(x, <<",">>)
      [] x.t = "null" -> <<"n", "u", "l", "l">>
      [] x.t = "undefined" -> <<"u", "n", "d", "e", "f", "i", "n", "e", "d">>
      [] x.t = "array" ->
            Join([n \in DOMAIN x.v |->
                    IF x.v[n].t \in {"null", "undefined"} THEN <<>>
                    ELSE ToJsString(x.v[n])], <<",">>)
      [] OTHER -> <<"[", "o", "b", "j", "e", "c", "t", " ", "O", "b", "j", "e", "c", "t", "]">>

\* schemaType in schemas: own and inherited keys
InSchemas(schemaType) ==
    ToJsString(schemaType) \in SchemaKeys \cup ObjectPrototypeKeys

\* schemas[schemaType](annotation), for a schemaType that is in schemas
CallSchema(schemaType, annotation) ==
    LET key == ToJsString(schemaType) IN
    CASE key = K_index -> validate(annotation)
      [] key = K_toString -> Returned(Str(<<"[", "o", "b", "j", "e", "c", "t", " ", "O", "b", "j", "e", "c", "t", "]">>))
      [] key = K_constructor -> Returned(Rec(annotation))
      [] key = K_valueOf -> Returned([t |-> "schemas", v |-> 0])
      [] OTHER ->
            Threw(Thrown("TypeError", <<"schemas[schemaType] is not a function">>,
                         {}, Undefined))

\* extraction._schematic_type === 'index'
IsIndex(extraction) ==
    /\ extraction.t = "record"
    /\ K_schematic_type \in DOMAIN extraction.v
    /\ extraction.v[K_schematic_type] = Str(K_index)

\* a result that keeps every extraction
KeepAll(xs) == xs

\* array.filter(keep), for a sequence
RECURSIVE FilterIndex(_)
FilterIndex(xs) ==
    IF xs = <<>> THEN <<>>
    ELSE IF IsIndex(Head(xs)) THEN <<Head(xs)>> \o FilterIndex(Tail(xs))
    ELSE FilterIndex(Tail(xs))

-----------------------------------------------------------------------------
(* extract and getAnnotations.                                             *)

\* a filter that asks for the dot after the prefix, as the parser does
IsAnnotationLineDotted(line, annotationPrefix) ==
    StartsWith(Trim(line), <<"@">> \o annotationPrefix \o <<".">>)

\* line.trim().startsWith(`@${annotationPrefix}`)
IsAnnotationLine(line, annotationPrefix) ==
    StartsWith(Trim(line), <<"@">> \o annotationPrefix)

RECURSIVE FilterLines(_, _)
FilterLines(lines, annotationPrefix) ==
    IF lines = <<>> THEN <<>>
    ELSE IF IsAnnotationLine(Head(lines), annotationPrefix)
    THEN <<Head(lines)>> \o FilterLines(Tail(lines), annotationPrefix)
    ELSE FilterLines(Tail(lines), annotationPrefix)

\* model.documentation.split('\n').filter(...)
AnnotationLines(documentation, annotationPrefix) ==
    FilterLines(SplitOn(documentation, "\n"), annotationPrefix)

\* { model: model.name, ...parseAnnotation(annotation, annotationPrefix) }
TagModel(name, parsed) == Spread((K_model :> Str(name)), parsed)

XPending == [status |-> "pending", indexes |-> <<>>, err |-> NewError(<<>>)]
XThrew(e) == [status |-> "threw", indexes |-> <<>>, err |-> e]

\* getAnnotations: the next iteration of `for (const model of ...models)`;
\* a model without documentation contributes no line
NextModel ==
    /\ xpc = "collect" /\ pending = <<>> /\ mi < Len(dmmf)
    /\ mi' = mi + 1
    /\ pending' =
         IF dmmf[mi + 1].documentation # <<>>
         THEN AnnotationLines(dmmf[mi + 1].documentation, prefix)
         ELSE <<>>
    /\ UNCHANGED <<dmmf, prefix, xpc, annotations, ei, extractions, xres, written>>
    /\ UNCHANGED <<lvars, bvars, pvars, gvars>>

\* a map callback that collects an annotation once: a line whose annotation
\* was collected before adds nothing
ParseLineOnce ==
    /\ xpc = "collect" /\ pending # <<>>
    /\ LET r == parseAnnotation(Head(pending), prefix) IN
       IF r.ok
       THEN /\ annotations' =
                 IF \E i \in DOMAIN annotations :
                        annotations[i] = TagModel(dmmf[mi].name, r.v)
                 THEN annotations
                 ELSE Append(annotations, TagModel(dmmf[mi].name, r.v))
            /\ pending' = Tail(pending)
            /\ UNCHANGED <<xpc, xres>>
       ELSE /\ xres' = XThrew(r.err)
            /\ xpc' = "done"
            /\ UNCHANGED <<annotations, pending>>
    /\ UNCHANGED <<dmmf, prefix, mi, ei, extractions, written>>
    /\ UNCHANGED <<lvars, bvars, pvars, gvars>>

\* getAnnotations: the map callback on the next filtered line of the model;
\* an error thrown by parseAnnotation leaves extract
ParseLine ==
    /\ xpc = "collect" /\ pending # <<>>
    /\ LET r == parseAnnotation(Head(pending), prefix) IN
       IF r.ok
       THEN /\ annotations' = Append(annotations, TagModel(dmmf[mi].name, r.v))
            /\ pending' = Tail(pending)
            /\ UNCHANGED <<xpc, xres>>
       ELSE /\ xres' = XThrew(r.err)
            /\ xpc' = "done"
            /\ UNCHANGED <<annotations, pending>>
    /\ UNCHANGED <<dmmf, prefix, mi, ei, extractions, written>>
    /\ UNCHANGED <<lvars, bvars, pvars, gvars>>

\* getAnnotations returns; extract starts annotations.forEach
GetAnnotationsReturn ==
    /\ xpc = "collect" /\ pending = <<>> /\ mi = Len(dmmf)
    /\ xpc' = "validate"
    /\ ei' = 1
    /\ UNCHANGED <<dmmf, prefix, mi, pending, annotations, extractions, xres, written>>
    /\ UNCHANGED <<lvars, bvars, pvars, gvars>>

\* extract: the forEach callback on the next annotation
ValidateAnnotation ==
    /\ xpc = "validate" /\ ei <= Len(annotations)
    /\ LET annotation == annotations[ei]
           schemaType == IF K_schematic_type \in DOMAIN annotation
                         THEN annotation[K_schematic_type] ELSE Undefined
           r == CallSchema(schemaType, annotation)
       IN  IF ~InSchemas(schemaType)
           THEN /\ xres' = XThrew(NewError(<<"Unknown annotation type", ": ",
                                            ToStr(ToJsString(schemaType))>>))
                /\ xpc' = "done"
                /\ UNCHANGED <<ei, extractions>>
           ELSE IF ~r.ok
           THEN /\ xres' = XThrew(r.err)
                /\ xpc' = "done"
                /\ UNCHANGED <<ei, extractions>>
           ELSE /\ extractions' = Append(extractions, r.v)
                /\ ei' = ei + 1
                /\ UNCHANGED <<xpc, xres>>
    /\ UNCHANGED <<dmmf, prefix, mi, pending, annotations, written>>
    /\ UNCHANGED <<lvars, bvars, pvars, gvars>>

\* extract returns { indexes: extractions.filter(...) }
ExtractReturn ==
    /\ xpc = "validate" /\ ei > Len(annotations)
    /\ xres' = [status |-> "returned", indexes |-> FilterIndex(extractions),
                err |-> NewError(<<>>)]
    /\ xpc' = "done"
    /\ UNCHANGED <<dmmf, prefix, mi, pending, annotations, ei, extractions, written>>
    /\ UNCHANGED <<lvars, bvars, pvars, gvars>>

-----------------------------------------------------------------------------
(* Paths (node's path module) and the file utilities.                      *)

\* A path is its segments and whether it starts at the root; '' has no segment.
Path(abs, segs) == [abs |-> abs, segs |-> segs]
EmptyPath == Path(FALSE, <<>>)

RECURSIVE JoinStr(_, _)
JoinStr(segs, sep) ==
    IF segs = <<>> THEN ""
    ELSE IF Len(segs) = 1 THEN segs[1]
    ELSE segs[1] \o sep \o JoinStr(Tail(segs), sep)

\* the path as the string it was given as
PathText(p) == (IF p.abs THEN "/" ELSE "") \o JoinStr(p.segs, "/")

\* path.dirname(p)
Dirname(p) ==
    IF Len(p.segs) <= 1
    THEN (IF p.abs THEN Path(TRUE, <<>>) ELSE Path(FALSE, <<".">>))
    ELSE Path(p.abs, SubSeq(p.segs, 1, Len(p.segs) - 1))

\* normalisation of "." and ".." segments below the root
RECURSIVE Normalize(_, _)
Normalize(stack, segs) ==
    IF segs = <<>> THEN stack
    ELSE IF Head(segs) = "." THEN Normalize(stack, Tail(segs))
    ELSE IF Head(segs) = ".."
    THEN Normalize(IF stack = <<>> THEN <<>>
                   ELSE SubSeq(stack, 1, Len(stack) - 1), Tail(segs))
    ELSE Normalize(Append(stack, Head(segs)), Tail(segs))

\* path.resolve(from, to); process.cwd() is /project
PathResolve(from, to) ==
    IF to.abs THEN Path(TRUE, Normalize(<<>>, to.segs))
    ELSE IF from.abs THEN Path(TRUE, Normalize(<<>>, from.segs \o to.segs))
    ELSE Path(TRUE, Normalize(<<>>, <<"project">> \o from.segs \o to.segs))

resolveFilePath(basePath, filePath) == PathResolve(Dirname(basePath), filePath)

\* the states of a file on disk
Absent == [kind |-> "absent", contents |-> <<>>]
Denied == [kind |-> "denied", contents |-> <<>>]
File(contents) == [kind |-> "file", contents |-> contents]

\* fs.readFile(path, 'utf8') on the disk d
ReadFile(d, path) ==
    IF path \notin DOMAIN d \/ d[path].kind = "absent"
    THEN Threw(NewError(<<"ENOENT: no such file or directory, open '",
                          PathText(path), "'">>))
    ELSE IF d[path].kind = "denied"
    THEN Threw(NewError(<<"EACCES: permission denied, open '",
                          PathText(path), "'">>))
    ELSE Returned(Str(d[path].contents))

\* resolveAndLoadFile without its catch: a failed read or parse rejects
resolveAndLoadFileNoCatch(d, options) ==
    LET contents == ReadFile(d, PathResolve(Dirname(options.basePath),
                                           options.filePath))
        json == JSONParse(contents.v.v)
    IN  IF ~contents.ok THEN Threw(contents.err)
        ELSE IF options.parse = "json"
        THEN (IF json.ok THEN Returned(json.v)
              ELSE Threw(Thrown("SyntaxError", <<"Unexpected token">>, {},
                                Undefined)))
        ELSE Returned(contents.v)

\* what the promise of resolveAndLoadFile(options) settles to on the disk d
resolveAndLoadFile(d, options) ==
    LET baseDir == Dirname(options.basePath)
        resolvedPath == PathResolve(baseDir, options.filePath)
        contents == ReadFile(d, resolvedPath)
        json == JSONParse(contents.v.v)
    IN  IF ~contents.ok THEN Returned(Undefined)
        ELSE IF options.parse = "json"
        THEN (IF json.ok THEN Returned(json.v) ELSE Returned(Undefined))
        ELSE Returned(contents.v)

-----------------------------------------------------------------------------
(* loadState.                                                              *)

\* a check for null only: undefined passes as content
FalsyNullOnly(v) == v.t = "null"

\* !v
Falsy(v) ==
    \/ v.t \in {"undefined", "null"}
    \/ v.t = "boolean" /\ ~v.v
    \/ v.t = "number" /\ v.v = 0
    \/ v.t = "string" /\ v.v = <<>>

\* the try block without the check of the content read
LoadTryNoEmptyCheck(stateFilePath, settled) ==
    IF ~settled.ok THEN Threw(settled.err) ELSE Returned(settled.v)

\* the body of loadState's try block once the awaited read has settled
LoadTry(stateFilePath, settled) ==
    IF ~settled.ok THEN Threw(settled.err)
    ELSE IF Falsy(settled.v)
    THEN Threw(NewError(<<"State file is empty", ": ", PathText(stateFilePath)>>))
    ELSE Returned(settled.v)

\* a catch block that reads .message off whatever was caught
LoadCatchMessageOnly(stateFilePath, error) ==
    NewError(<<"There was an error loading the state file", ": ",
               PathText(stateFilePath), ". ">> \o error.message)

\* loadState's catch block: the error it throws for the caught error
LoadCatch(stateFilePath, error) ==
    IF error.name # "NotAnError"    \* error instanceof Error
    THEN NewError(<<"There was an error loading the state file", ": ",
                    PathText(stateFilePath), ". ">> \o error.message)
    ELSE NewError(<<"There was an error loading the state file", ": ",
                    PathText(stateFilePath), ". ",
                    ToStr(ToJsString(error.value))>>)

Resolved(v) == [status |-> "resolved", v |-> v, err |-> NewError(<<>>)]
Rejected(e) == [status |-> "rejected", v |-> Undefined, err |-> e]

\* a call of loadState or of resolveAndLoadFile, before its first step
NewCall(fn, stateFilePath, schemaPath, parse, read) ==
    [fn |-> fn, stateFilePath |-> stateFilePath, schemaPath |-> schemaPath,
     parse |-> parse, read |-> read, pc |-> "start", reads |-> 0,
     settled |-> Returned(Undefined),
     out |-> [status |-> "pending", v |-> Undefined, err |-> NewError(<<>>)]]

\* loadState with the check of schemaPath ahead of the check of stateFilePath
LoadStateStartSchemaFirst(c) ==
    /\ calls[c].fn = "loadState" /\ calls[c].pc = "start"
    /\ calls' =
         [calls EXCEPT ![c] =
            IF @.schemaPath = EmptyPath
            THEN [@ EXCEPT !.pc = "done",
                           !.out = Rejected(NewError(<<"Schema path is required">>))]
            ELSE IF @.stateFilePath = EmptyPath
            THEN [@ EXCEPT !.pc = "done",
                           !.out = Rejected(NewError(<<"State file path is required">>))]
            ELSE IF @.read.mode = "mock"
            THEN [@ EXCEPT !.pc = "await", !.settled = calls[c].read.outcome]
            ELSE [@ EXCEPT !.pc = "readFile", !.reads = @ + 1]]
    /\ UNCHANGED disk
    /\ UNCHANGED <<xvars, bvars, pvars, gvars>>

\* loadState up to its await: the argument checks, then the read is issued
\* (the real resolveAndLoadFile, or the test double of the loader's tests)
LoadStateStart(c) ==
    /\ calls[c].fn = "loadState" /\ calls[c].pc = "start"
    /\ calls' =
         [calls EXCEPT ![c] =
            IF @.stateFilePath = EmptyPath
            THEN [@ EXCEPT !.pc = "done",
                           !.out = Rejected(NewError(<<"State file path is required">>))]
            ELSE IF @.schemaPath = EmptyPath
            THEN [@ EXCEPT !.pc = "done",
                           !.out = Rejected(NewError(<<"Schema path is required">>))]
            ELSE IF @.read.mode = "mock"
            THEN [@ EXCEPT !.pc = "await", !.settled = calls[c].read.outcome]
            ELSE [@ EXCEPT !.pc = "readFile", !.reads = @ + 1]]
    /\ UNCHANGED disk
    /\ UNCHANGED <<xvars, bvars, pvars, gvars>>

\* a direct call of resolveAndLoadFile, up to its await of fs.readFile
ResolveAndLoadFileStart(c) ==
    /\ calls[c].fn = "resolveAndLoadFile" /\ calls[c].pc = "start"
    /\ calls' = [calls EXCEPT ![c].pc = "readFile", ![c].reads = @ + 1]
    /\ UNCHANGED disk
    /\ UNCHANGED <<xvars, bvars, pvars, gvars>>

\* reads in flight sharing one result: the read that settles settles every
\* call that waits for a read, with its own content
ReadFileSettlesShared(c) ==
    /\ calls[c].pc = "readFile"
    /\ LET r == resolveAndLoadFile(disk, [basePath |-> calls[c].schemaPath,
                                          filePath |-> calls[c].stateFilePath,
                                          parse |-> IF calls[c].fn = "loadState"
                                                    THEN "json" ELSE calls[c].parse])
       IN  calls' =
             [d \in DOMAIN calls |->
                IF calls[d].pc # "readFile" THEN calls[d]
                ELSE IF calls[d].fn = "loadState"
                THEN [calls[d] EXCEPT !.pc = "await", !.settled = r]
                ELSE [calls[d] EXCEPT !.pc = "done", !.settled = r,
                                      !.out = Resolved(r.v)]]
    /\ UNCHANGED disk
    /\ UNCHANGED <<xvars, bvars, pvars, gvars>>

\* fs.readFile settles and resolveAndLoadFile runs to its end
ReadFileSettles(c) ==
    /\ calls[c].pc = "readFile"
    /\ LET options == IF calls[c].fn = "loadState"
                      THEN [basePath |-> calls[c].schemaPath,
                            filePath |-> calls[c].stateFilePath,
                            parse |-> "json"]
                      ELSE [basePath |-> calls[c].schemaPath,
                            filePath |-> calls[c].stateFilePath,
                            parse |-> calls[c].parse]
           r == resolveAndLoadFile(disk, options)
       IN  calls' =
             [calls EXCEPT ![c] =
                IF @.fn = "loadState"
                THEN [@ EXCEPT !.pc = "await", !.settled = r]
                ELSE [@ EXCEPT !.pc = "done", !.settled = r,
                               !.out = IF r.ok THEN Resolved(r.v)
                                       ELSE Rejected(r.err)]]
    /\ UNCHANGED disk
    /\ UNCHANGED <<xvars, bvars, pvars, gvars>>

\* loadState resumes after its await and runs to its end
LoadStateResume(c) ==
    /\ calls[c].fn = "loadState" /\ calls[c].pc = "await"
    /\ LET r == LoadTry(calls[c].stateFilePath, calls[c].settled)
       IN  calls' =
             [calls EXCEPT ![c].pc = "done",
                           ![c].out =
                              IF r.ok THEN Resolved(r.v)
                              ELSE Rejected(LoadCatch(calls[c].stateFilePath, r.err))]
    /\ UNCHANGED disk
    /\ UNCHANGED <<xvars, bvars, pvars, gvars>>

-----------------------------------------------------------------------------
(* computeHash and buildState.                                             *)

K_generatedAt == <<"g", "e", "n", "e", "r", "a", "t", "e", "d", "A", "t">>
K_schemaHash == <<"s", "c", "h", "e", "m", "a", "H", "a", "s", "h">>
K_indexes == <<"i", "n", "d", "e", "x", "e", "s">>

\* createHash('sha256').update(text).digest('hex'): the digest of the text,
\* SHA-256 being taken as free of collisions
Sha256Hex(text) == [sha256 |-> text]

\* computeHash that serializes a string like any other value
computeHashOfJson(value) == Sha256Hex(JsonText(value, <<",">>))

\* computeHash(value)
computeHash(value) ==
    Sha256Hex(IF value.t = "string" THEN value.v ELSE JsonText(value, <<",">>))

\* a model of the document as the JSON value JSON.stringify sees; a model
\* without documentation has no such key
ModelValue(model) ==
    Obj(<<[k |-> <<"n", "a", "m", "e">>, val |-> Str(model.name)]>>
        \o (IF model.documentation = <<>> THEN <<>>
            ELSE <<[k |-> <<"d", "o", "c", "u", "m", "e", "n", "t", "a", "t", "i", "o", "n">>, val |-> Str(model.documentation)]>>))

\* the document: { datamodel: { models: [...] } }
DocumentValue(document) ==
    Obj(<<[k |-> <<"d", "a", "t", "a", "m", "o", "d", "e", "l">>,
           val |-> Obj(<<[k |-> <<"m", "o", "d", "e", "l", "s">>,
                          val |-> Arr([i \in DOMAIN document |->
                                         ModelValue(document[i])])]>>)]>>)

\* n in decimal, padded with zeros to the width
Pad(n, width) ==
    LET digits == NatText(n)
    IN  [i \in 1..(width - Len(digits)) |-> "0"] \o digits

\* a timestamp whose fields are written without leading zeros
toISOStringUnpadded(ms) ==
    <<"2", "0", "2", "4", "-", "1", "-", "1", "T", "0", ":", "0", ":">> \o NatText(ms \div 1000) \o <<".">>
    \o NatText(ms % 1000) \o <<"Z">>

\* new Date(ms).toISOString(), the clock counting the milliseconds of the
\* first minute of 2024-01-01 (UTC)
toISOString(ms) ==
    <<"2", "0", "2", "4", "-", "0", "1", "-", "0", "1", "T", "0", "0", ":", "0", "0", ":">> \o Pad(ms \div 1000, 2) \o <<".">>
    \o Pad(ms % 1000, 3) \o <<"Z">>

\* { generatedAt: ..., schemaHash: ..., ...extractions }
Snapshot(instant, document, indexes) ==
    Spread((K_generatedAt :> Str(toISOString(instant)))
             @@ (K_schemaHash :> computeHash(DocumentValue(document))),
           (K_indexes :> indexes))

\* the instants the clock starts at, and those it passes through
ClockStarts == {8, 998}
\* buildState is called: extract begins
BuildStateCall ==
    /\ bpc = "idle" /\ Len(snapshots) < MaxBuilds
    /\ bpc' = "extract"
    /\ xpc' = "collect"
    /\ mi' = 0
    /\ pending' = <<>>
    /\ annotations' = <<>>
    /\ ei' = 0
    /\ extractions' = <<>>
    /\ xres' = XPending
    /\ UNCHANGED <<dmmf, prefix, written, now, snapshots>>
    /\ UNCHANGED <<lvars, pvars, gvars>>

\* extract has ended: buildState returns the snapshot, or the error extract
\* threw leaves it
BuildStateReturn ==
    /\ bpc = "extract" /\ xpc = "done"
    /\ LET r == IF xres.status = "returned"
                THEN Returned(Snapshot(now, dmmf, xres.indexes))
                ELSE Threw(xres.err)
       \* at: the instant of the call, kept with its outcome
       IN  snapshots' = Append(snapshots, [ok |-> r.ok, v |-> r.v,
                                           err |-> r.err, at |-> now])
    /\ bpc' = "idle"
    /\ UNCHANGED <<now>>
    /\ UNCHANGED <<xvars, lvars, pvars, gvars>>

\* a millisecond passes
Tick ==
    /\ now + 1 \in UNION {s..(s + MaxTicks) : s \in ClockStarts}
    /\ now' = now + 1
    /\ UNCHANGED <<bpc, snapshots>>
    /\ UNCHANGED <<xvars, lvars, pvars, gvars>>

-----------------------------------------------------------------------------
(* One application of parseValue, splitArguments or parseAnnotation.       *)

\* what is applied: the function, its text argument, the prefix argument of
\* parseAnnotation, and the value the text was written from (`how` tells in
\* which way)
Application(fn, text, pre, how, x) ==
    [fn |-> fn, text |-> text, prefix |-> pre, how |-> how, x |-> x]
NoApplication == Application("none", <<>>, <<>>, "none", Undefined)

NotApplied == [done |-> FALSE, r |-> Returned(Undefined)]
Applied(r) == [done |-> TRUE, r |-> r]

ApplyParseValue ==
    /\ pin.fn = "parseValue" /\ ~pout.done
    /\ pout' = Applied(Returned(parseValue(pin.text)))
    /\ UNCHANGED pin
    /\ UNCHANGED <<xvars, lvars, bvars, gvars>>

ApplySplitArguments ==
    /\ pin.fn = "splitArguments" /\ ~pout.done
    /\ pout' = Applied(Returned(splitArguments(pin.text)))
    /\ UNCHANGED pin
    /\ UNCHANGED <<xvars, lvars, bvars, gvars>>

ApplyParseAnnotation ==
    /\ pin.fn = "parseAnnotation" /\ ~pout.done
    /\ pout' = Applied(parseAnnotation(pin.text, pin.prefix))
    /\ UNCHANGED pin
    /\ UNCHANGED <<xvars, lvars, bvars, gvars>>

ApplyComputeHash ==
    /\ pin.fn = "computeHash" /\ ~pout.done
    /\ pout' = Applied(Returned(computeHash(pin.x)))
    /\ UNCHANGED pin
    /\ UNCHANGED <<xvars, lvars, bvars, gvars>>

-----------------------------------------------------------------------------
(* extractConfigFromSchema and generate.                                   *)

\* record[key] || fallback, for an option that is a text or a path
OrElse(record, key, fallback) ==
    LET empty == IF key = "stateFilePath" THEN EmptyPath
                 ELSE IF key = "annotationPrefix" THEN <<>> ELSE FALSE
    IN  IF key \in DOMAIN record /\ record[key] # empty
        THEN record[key] ELSE fallback

\* record[key] ?? fallback: an option that was not given is undefined
Coalesce(record, key, fallback) ==
    IF key \in DOMAIN record THEN record[key] ELSE fallback

\* extractConfigFromSchema(options)
extractConfigFromSchema(options) ==
    LET generator == options.generator
        datasources == options.datasources
        databaseProvider ==
            IF datasources = <<>> THEN Undefined ELSE datasources[1].provider
    IN  IF Falsy(databaseProvider)
        THEN Threw(NewError(<<"Database provider not found">>))
        ELSE Returned(
               [databaseProvider |-> databaseProvider,
                autoIndexForeignKeys |->
                    Coalesce(generator.config, "autoIndexForeignKeys", FALSE),
                annotationPrefix |->
                    Coalesce(generator.config, "annotationPrefix",
                             <<"s", "c", "h", "e", "m", "a", "t", "i", "c">>),
                stateFilePath |->
                    Coalesce(generator.config, "stateFilePath",
                             Path(FALSE, <<".", ".schematic-state.json">>)),
                outputPath |->
                    IF generator.output.t \in {"undefined", "null"}
                    THEN Path(FALSE, <<"..", "generated">>)
                    ELSE generator.output.value])

\* no call of generate
NoGenerate ==
    [pc |-> "idle", options |-> <<>>, config |-> Returned(Undefined),
     steps |-> <<>>, mkdir |-> <<>>,
     out |-> [status |-> "pending", v |-> Undefined, err |-> NewError(<<>>)]]

\* generate up to its first await: the config is extracted and loadState is
\* called; an error thrown by extractConfigFromSchema rejects the call
GenerateStart ==
    /\ gen.pc = "start"
    /\ LET r == extractConfigFromSchema(gen.options) IN
       IF ~r.ok
       THEN /\ gen' = [gen EXCEPT !.pc = "done", !.config = r,
                                  !.steps = Append(@, "extractConfigFromSchema"),
                                  !.out = Rejected(r.err)]
            /\ UNCHANGED calls
       ELSE /\ gen' = [gen EXCEPT !.pc = "loadState", !.config = r,
                                  !.steps = @ \o <<"extractConfigFromSchema",
                                                   "loadState">>]
            /\ calls' = (1 :> NewCall("loadState", r.v.stateFilePath,
                                      gen.options.schemaPath, "json",
                                      [mode |-> "fs",
                                       outcome |-> Returned(Undefined)]))
    /\ UNCHANGED disk
    /\ UNCHANGED <<xvars, bvars, pvars>>

\* generate going on to buildState whatever loadState settled to
GenerateLoadedUnchecked ==
    /\ gen.pc = "loadState" /\ calls[1].pc = "done"
    /\ gen' = [gen EXCEPT !.pc = "buildState",
                          !.steps = Append(@, "buildState")]
    /\ prefix' = gen.config.v.annotationPrefix
    /\ bpc' = "extract"
    /\ xpc' = "collect"
    /\ mi' = 0
    /\ pending' = <<>>
    /\ annotations' = <<>>
    /\ ei' = 0
    /\ extractions' = <<>>
    /\ xres' = XPending
    /\ UNCHANGED <<dmmf, written, now, snapshots>>
    /\ UNCHANGED <<lvars, pvars>>

\* loadState has settled: its rejection rejects generate, otherwise
\* buildState is called and extract begins
GenerateLoaded ==
    /\ gen.pc = "loadState" /\ calls[1].pc = "done"
    /\ IF calls[1].out.status = "rejected"
       THEN /\ gen' = [gen EXCEPT !.pc = "done",
                                  !.out = Rejected(calls[1].out.err)]
            /\ UNCHANGED <<xvars, bvars>>
       ELSE /\ gen' = [gen EXCEPT !.pc = "buildState",
                                  !.steps = Append(@, "buildState")]
            /\ prefix' = gen.config.v.annotationPrefix
            /\ bpc' = "extract"
            /\ xpc' = "collect"
            /\ mi' = 0
            /\ pending' = <<>>
            /\ annotations' = <<>>
            /\ ei' = 0
            /\ extractions' = <<>>
            /\ xres' = XPending
            /\ UNCHANGED <<dmmf, written, now, snapshots>>
    /\ UNCHANGED <<lvars, pvars>>

\* buildState has ended: the error it threw rejects generate, otherwise
\* fs.mkdir(outputPath, { recursive: true }) is called
GenerateBuilt ==
    /\ gen.pc = "buildState" /\ bpc = "idle" /\ snapshots # <<>>
    /\ gen' = IF snapshots[1].ok
              THEN [gen EXCEPT !.pc = "mkdir", !.steps = Append(@, "mkdir"),
                               !.mkdir = <<gen.config.v.outputPath>>]
              ELSE [gen EXCEPT !.pc = "done",
                               !.out = Rejected(snapshots[1].err)]
    /\ UNCHANGED <<xvars, lvars, bvars, pvars>>

\* fs.mkdir settles and generate with it
MkdirSettles ==
    /\ gen.pc = "mkdir"
    /\ \E r \in {Returned(Undefined),
                 Threw(NewError(<<"EACCES: permission denied, mkdir '",
                                  PathText(gen.config.v.outputPath), "'">>))} :
          gen' = [gen EXCEPT !.pc = "done",
                             !.out = IF r.ok THEN Resolved(r.v)
                                     ELSE Rejected(r.err)]
    /\ UNCHANGED <<xvars, lvars, bvars, pvars>>

-----------------------------------------------------------------------------
(* The inputs drawn at Init.                                               *)

\* config.annotationPrefix
Prefixes == {<<"s", "c", "h", "e", "m", "a", "t", "i", "c">>}

K_extra == <<"e", "x", "t", "r", "a">>
Post == <<"P", "o", "s", "t">>
User == <<"U", "s", "e", "r">>

\* One argument of an annotation: its key and the JSON value of its literal.
Arg(k, x) == [k |-> k, x |-> x]

ArgPool ==
    { Arg(K_fields, Arr(<<Str(<<"a", "u", "t", "h", "o", "r", "I", "d">>)>>)),
      Arg(K_fields, Arr(<<Str(<<"a", ",", "b">>), Str(<<"c">>)>>)),
      Arg(K_fields, Arr(<<>>)),
      Arg(K_fields, Str(<<"a">>)),
      Arg(K_fields, Arr(<<Num(1)>>)),
      Arg(K_fields, Arr(<<Str(<<"a">>), Str(<<"a">>)>>)),
      Arg(K_schematic_type, Str(K_index)),
      Arg(K_name, Str(<<"n">>)),
      Arg(K_name, Str(<<"a", "\"", ",", "b">>)),
      Arg(K_name, Str(<<"x", ":", " ", "[", "y">>)),
      Arg(K_name, Null),
      Arg(K_type, Str(<<"u", "n", "i", "q", "u", "e">>)),
      Arg(K_type, Str(<<"b", "t", "r", "e", "e">>)),
      Arg(K_where, Str(<<"a", " ", "=", " ", "1", ",", " ", "b">>)),
      Arg(K_where, Bool(TRUE)),
      Arg(K_model, Str(User)),
      Arg(K_extra, Num(12)),
      Arg(K_extra, Obj(<<[k |-> <<"k">>, val |-> Arr(<<Num(1), Num(2)>>)]>>)) }

\* the argument lists of a well-formed annotation: distinct keys
ArgLists ==
    UNION { { a \in [1..n -> ArgPool] :
                \A i, j \in 1..n : i # j => a[i].k # a[j].k } : n \in 0..MaxArgs }

\* `key: literal`
ArgText(a) == a.k \o <<":", " ">> \o JsonText(a.x, <<",", " ">>)

\* the kinds of the one-line documents
NotWritten == [kind |-> <<>>, args |-> <<>>]

Model(name, lines) == [name |-> name, documentation |-> Join(lines, <<"\n">>)]

\* one annotation, its argument span spread over three lines, and the same
\* annotation on one line
MultiLineText ==
    <<"@", "s", "c", "h", "e", "m", "a", "t", "i", "c", ".", "i", "n", "d", "e", "x", "(", "\n", " ", " ", "f", "i", "e", "l", "d", "s", ":", " ", "[", "\"", "a", "\"", "]", "\n", ")">>
OneLineText ==
    <<"@", "s", "c", "h", "e", "m", "a", "t", "i", "c", ".", "i", "n", "d", "e", "x", "(", "f", "i", "e", "l", "d", "s", ":", " ", "[", "\"", "a", "\"", "]", ")">>

\* the models of the documents of several models
ModelPool ==
    { Model(Post, <<<<"P", "o", "s", "t", "s", " ", "o", "f", " ", "a", " ", "u", "s", "e", "r">>,
                    <<"@", "s", "c", "h", "e", "m", "a", "t", "i", "c", ".", "i", "n", "d", "e", "x", "(", "f", "i", "e", "l", "d", "s", ":", " ", "[", "\"", "a", "u", "t", "h", "o", "r", "I", "d", "\"", "]", ")">>>>),
      Model(User, <<>>),
      Model(User, <<<<" ", " ", "@", "s", "c", "h", "e", "m", "a", "t", "i", "c", ".", "i", "n", "d", "e", "x", "(", "f", "i", "e", "l", "d", "s", ":", " ", "[", "\"", "a", "\"", "]", ",", " ", "t", "y", "p", "e", ":", " ", "\"", "u", "n", "i", "q", "u", "e", "\"", ")">>,
                    <<"@", "s", "c", "h", "e", "m", "a", "t", "i", "c", ".", "i", "n", "d", "e", "x", "(", "f", "i", "e", "l", "d", "s", ":", " ", "[", "\"", "a", "\"", "]", ",", " ", "t", "y", "p", "e", ":", " ", "\"", "u", "n", "i", "q", "u", "e", "\"", ")">>>>),
      Model(Post, <<<<"@", "s", "c", "h", "e", "m", "a", "t", "i", "c", ".", "p", "a", "r", "t", "i", "a", "l", "I", "n", "d", "e", "x", "(", "c", "o", "l", "u", "m", "n", "s", ":", " ", "[", "\"", "e", "m", "a", "i", "l", "\"", "]", ")">>>>),
      Model(Post, <<<<"@", "s", "c", "h", "e", "m", "a", "t", "i", "c", ".", "I", "n", "d", "e", "x", "(", "f", "i", "e", "l", "d", "s", ":", " ", "[", "\"", "a", "\"", "]", ")">>>>),
      Model(User, <<<<"@", "s", "c", "h", "e", "m", "a", "t", "i", "c", ".", "t", "o", "S", "t", "r", "i", "n", "g", "(", ")">>>>),
      Model(Post, <<<<"@", "s", "c", "h", "e", "m", "a", "t", "i", "c", ".", "c", "o", "n", "s", "t", "r", "u", "c", "t", "o", "r", "(", "f", "i", "e", "l", "d", "s", ":", " ", "[", "\"", "a", "\"", "]", ")">>>>),
      Model(User, <<<<"@", "s", "c", "h", "e", "m", "a", "t", "i", "c", ".", "v", "a", "l", "u", "e", "O", "f", "(", ")">>>>),
      Model(Post, <<<<"@", "s", "c", "h", "e", "m", "a", "t", "i", "c", ".", "_", "_", "p", "r", "o", "t", "o", "_", "_", "(", ")">>>>),
      Model(User, <<<<"@", "s", "c", "h", "e", "m", "a", "t", "i", "c", ".", "i", "n", "d", "e", "x">>>>),
      Model(Post, <<<<"@", "s", "c", "h", "e", "m", "a", "t", "i", "c", "X", ".", "i", "n", "d", "e", "x", "(", "f", "i", "e", "l", "d", "s", ":", " ", "[", "\"", "a", "\"", "]", ")">>>>),
      Model(User, <<<<"@", "s", "c", "h", "e", "m", "a", "t", "i", "c", ".", "i", "n", "d", "e", "x", "(", "f", "i", "e", "l", "d", "s", ":", " ", "[", "]", ")">>>>),
      Model(User, <<<<"@", "s", "c", "h", "e", "m", "a", "t", "i", "c">>>>),
      Model(Post, <<MultiLineText>>) }

InitExtract ==
    /\ prefix \in Prefixes
    /\ \/ \E kind \in {K_index, <<"g", "i", "n", "I", "n", "d", "e", "x">>}, args \in ArgLists :
            /\ written = [kind |-> kind, args |-> args]
            /\ dmmf = <<[name |-> Post,
                         documentation |->
                            <<"@">> \o prefix \o <<".">> \o kind \o <<"(">>
                            \o Join([i \in DOMAIN args |-> ArgText(args[i])],
                                    <<",", " ">>)
                            \o <<")">>]>>
       \/ /\ written = NotWritten
          /\ dmmf \in UNION {[1..n -> ModelPool] : n \in 1..MaxModels}
    /\ xpc = "collect"
    /\ mi = 0
    /\ pending = <<>>
    /\ annotations = <<>>
    /\ ei = 0
    /\ extractions = <<>>
    /\ xres = XPending
    \* no call of the loader is running
    /\ disk = <<>>
    /\ calls = <<>>
    \* no buildState runs, no function is applied on its own
    /\ now = 0 /\ bpc = "idle" /\ snapshots = <<>>
    /\ pin = NoApplication /\ pout = NotApplied
    /\ gen = NoGenerate

\* the paths given to loadState
StatePaths ==
    { EmptyPath,
      Path(FALSE, <<".", ".schematic-state.json">>),
      Path(FALSE, <<"..", "state.json">>),
      Path(TRUE, <<"project", "prisma", ".schematic-state.json">>) }
SchemaPaths == {EmptyPath, Path(TRUE, <<"project", "prisma", "schema.prisma">>)}


CallInputs ==
    { NewCall("loadState", f, b, "json", r) :
        f \in StatePaths, b \in SchemaPaths,
        \* the real read, or a test double of resolveAndLoadFile in the loader's tests
        r \in {[mode |-> "fs", outcome |-> Returned(Undefined)]}
                 \cup {[mode |-> "mock", outcome |-> o] :
                         o \in { Returned(Obj(<<[k |-> <<"d", "a", "t", "a">>, val |-> Str(<<"t", "e", "s", "t">>)]>>)),
                                Returned(Obj(<<>>)),
                                Returned(Null),
                                Returned(Undefined),
                                Threw(NewError(<<"File not found">>)),
                                Threw(Thrown("NotAnError", <<>>, {}, Str(<<"S", "t", "r", "i", "n", "g", " ", "e", "r", "r", "o", "r", " ", "m", "e", "s", "s", "a", "g", "e">>))) } } }
    \cup
    { NewCall("resolveAndLoadFile", f, b, p, [mode |-> "fs", outcome |-> Returned(Undefined)]) :
        f \in StatePaths \ {EmptyPath}, b \in SchemaPaths \ {EmptyPath},
        p \in {"json", "none"} }

InitLoad ==
    /\ disk \in [{ resolveFilePath(b, f) : b \in SchemaPaths \ {EmptyPath},
                                            f \in StatePaths \ {EmptyPath} }
                 -> { Absent, Denied,
                      File(<<"{", "\"", "i", "n", "d", "e", "x", "e", "s", "\"", ":", " ", "[", "]", "}">>),
                      File(<<"{", " ", "i", "n", "v", "a", "l", "i", "d", " ", "j", "s", "o", "n", " ", "}">>),
                      File(<<"n", "u", "l", "l">>),
                      File(<<"0">>),
                      File(<<>>) }]
    /\ calls \in [{1} -> CallInputs]
    \* no extract is running
    /\ prefix = <<>> /\ written = NotWritten /\ dmmf = <<>>
    /\ xpc = "idle" /\ mi = 0 /\ pending = <<>> /\ annotations = <<>>
    /\ ei = 0 /\ extractions = <<>> /\ xres = XPending
    \* no buildState runs, no function is applied on its own
    /\ now = 0 /\ bpc = "idle" /\ snapshots = <<>>
    /\ pin = NoApplication /\ pout = NotApplied
    /\ gen = NoGenerate

\* two calls of the loader in flight on one disk, both reading the disk
InitLoadPair ==
    /\ disk \in [{ resolveFilePath(b, f) : b \in SchemaPaths \ {EmptyPath},
                                            f \in StatePaths \ {EmptyPath} }
                 -> { Absent,
                      File(<<"{", "\"", "i", "n", "d", "e", "x", "e", "s", "\"", ":", " ", "[", "]", "}">>),
                      File(<<"{", " ", "i", "n", "v", "a", "l", "i", "d", " ", "j", "s", "o", "n", " ", "}">>),
                      File(<<"n", "u", "l", "l">>) }]
    /\ calls \in [1..2 -> {c \in CallInputs : c.read.mode = "fs"}]
    /\ prefix = <<>> /\ written = NotWritten /\ dmmf = <<>>
    /\ xpc = "idle" /\ mi = 0 /\ pending = <<>> /\ annotations = <<>>
    /\ ei = 0 /\ extractions = <<>> /\ xres = XPending
    /\ now = 0 /\ bpc = "idle" /\ snapshots = <<>>
    /\ pin = NoApplication /\ pout = NotApplied
    /\ gen = NoGenerate

\* the models of the documents buildState is called on: an index annotation
\* under a comment line, no documentation, kinds the registry inherits, and
\* a kind it does not have
BuildModels ==
    { Model(Post, <<<<"P", "o", "s", "t", "s", " ", "o", "f", " ", "a", " ", "u", "s", "e", "r">>, <<"@", "s", "c", "h", "e", "m", "a", "t", "i", "c", ".", "i", "n", "d", "e", "x", "(", "f", "i", "e", "l", "d", "s", ":", " ", "[", "\"", "a", "u", "t", "h", "o", "r", "I", "d", "\"", "]", ")">>>>),
      Model(User, <<>>),
      Model(User, <<<<"@", "s", "c", "h", "e", "m", "a", "t", "i", "c", ".", "t", "o", "S", "t", "r", "i", "n", "g", "(", ")">>>>),
      Model(Post, <<<<"@", "s", "c", "h", "e", "m", "a", "t", "i", "c", ".", "c", "o", "n", "s", "t", "r", "u", "c", "t", "o", "r", "(", "f", "i", "e", "l", "d", "s", ":", " ", "[", "\"", "a", "\"", "]", ")">>>>),
      Model(Post, <<<<"@", "s", "c", "h", "e", "m", "a", "t", "i", "c", ".", "p", "a", "r", "t", "i", "a", "l", "I", "n", "d", "e", "x", "(", "c", "o", "l", "u", "m", "n", "s", ":", " ", "[", "\"", "e", "m", "a", "i", "l", "\"", "]", ")">>>>) }

\* ---- buildState on one document

InitBuild ==
    /\ prefix \in Prefixes
    /\ written = NotWritten
    /\ dmmf \in UNION {[1..n -> BuildModels] : n \in 0..MaxModels}
    /\ now \in ClockStarts
    /\ bpc = "idle"
    /\ snapshots = <<>>
    \* no extract has started
    /\ xpc = "idle" /\ mi = 0 /\ pending = <<>> /\ annotations = <<>>
    /\ ei = 0 /\ extractions = <<>> /\ xres = XPending
    \* no call of the loader is running, no function is applied on its own
    /\ disk = <<>> /\ calls = <<>>
    /\ pin = NoApplication /\ pout = NotApplied
    /\ gen = NoGenerate

\* ---- the texts a function of annotation.utils is applied to

\* JSON values
ValuePool ==
    { Num(0), Num(12), Num(0 - 5), Bool(TRUE), Bool(FALSE), Null,
      Str(<<>>), Str(<<"a", " ", "b">>), Str(<<"x", ":", " ", "[", "y", ",", " ", "z">>), Str(<<"a", "\"", ",", "b">>),
      Str(<<"a", "\n", "\\", "b">>), Str(<<"i", "t", "'", "s">>),
      Arr(<<>>), Arr(<<Num(1), Str(<<"a", ",", "b">>), Null>>),
      Arr(<<Arr(<<Num(1)>>), Arr(<<>>)>>), Obj(<<>>),
      Obj(<<[k |-> <<"k">>, val |-> Arr(<<Num(1), Num(2)>>)],
            [k |-> <<"o">>, val |-> Obj(<<[k |-> <<"p">>, val |-> Bool(TRUE)]>>)]>>) }

\* white space around a literal
Pads == {<<>>, <<" ">>, <<" ", "\t">>, <<"\n">>}

\* argument texts
SplitTexts ==
    { <<>>, <<"a", ":", " ", "1">>, <<"a", ":", " ", "1", ",", " ", "b", ":", " ", "2">>, <<"a", ":", " ", "1", ",", " ", "b", ":", " ", "2", ",">>, <<"a", ":", " ", "1", ",", " ", "b", ":", " ", "2", ",", " ">>,
      <<"a", ":", " ", "1", ",", " ", "b", ":", " ", "2", ",", ",">>, <<"a", ":", " ", "1", ",", " ", "b", ":", " ", "2", ",", " ", ",">>, <<",">>, <<" ", ",", " ">>,
      <<"c", "o", "l", "u", "m", "n", "s", ":", " ", "[", "\"", "a", ",", "b", "\"", ",", " ", "\"", "c", ",", "d", "\"", "]", ",", " ", "t", "y", "p", "e", ":", " ", "\"", "b", "t", "r", "e", "e", "\"">>,
      <<"w", "h", "e", "r", "e", ":", " ", "'", "a", ",", " ", "b", "'", ",", " ", "o", ":", " ", "{", "\"", "k", "\"", ":", " ", "[", "1", ",", " ", "2", "]", "}">>,
      \* brackets of two kinds, a closer without opener, a quote never closed,
      \* a bracket inside quotes, a quote inside quotes of the other kind
      <<"a", ":", " ", "[", "1", ",", " ", "2", "}", ",", " ", "b", ":", " ", "3">>,
      <<"a", ":", " ", "]", ",", " ", "b", ":", " ", "2", ",", " ", "c", ":", " ", "[", ",", " ", "d", ":", " ", "4">>,
      <<"a", ":", " ", "\"", "x", ",", " ", "b", ":", " ", "2", ",", " ", "c", ":", " ", "[", "3", "]">>,
      <<"a", ":", " ", "\"", "[", "\"", ",", " ", "b", ":", " ", "2">>,
      <<"a", ":", " ", "'", "i", "t", "\"", "s", ",", " ", "b", "'", ",", " ", "c">> }

\* annotation lines, well-formed and not
AnnotationTexts ==
    { OneLineText, <<" ", " ">> \o OneLineText \o <<" ">>, MultiLineText,
      <<"@", "s", "c", "h", "e", "m", "a", "t", "i", "c", ".", "i", "n", "d", "e", "x">>, <<"@", "s", "c", "h", "e", "m", "a", "t", "i", "c", ".", "i", "n", "d", "e", "x", "(">>, <<"@", "s", "c", "h", "e", "m", "a", "t", "i", "c", ".", "i", "n", "d", "e", "x", ")">>,
      <<"@", "s", "c", "h", "e", "m", "a", "t", "i", "c", ".", "i", "n", "d", "e", "x", "(", ")">>, <<"@", "s", "c", "h", "e", "m", "a", "t", "i", "c", ".", "i", "n", "d", "e", "x", " ", "(", ")">>,
      <<"s", "c", "h", "e", "m", "a", "t", "i", "c", ".", "i", "n", "d", "e", "x", "(", ")">>, <<"x", " ", "@", "s", "c", "h", "e", "m", "a", "t", "i", "c", ".", "i", "n", "d", "e", "x", "(", ")">>,
      <<"@", "s", "c", "h", "e", "m", "a", "t", "i", "c", "X", ".", "i", "n", "d", "e", "x", "(", ")">>, <<"@", "s", "c", "h", "e", "m", "a", "t", "i", "c", " ", "i", "n", "d", "e", "x", "(", ")">>,
      <<"@", "o", "t", "h", "e", "r", ".", "i", "n", "d", "e", "x", "(", "a", ":", " ", "1", ")">>, <<"@", "c", "u", "s", "t", "o", "m", ".", "i", "n", "d", "e", "x", "(", "a", ":", " ", "1", ")">>,
      <<"@", "s", "c", "h", "e", "m", "a", "t", "i", "c", ".", "(", "a", ":", " ", "1", ")">>, <<"@", "s", "c", "h", "e", "m", "a", "t", "i", "c", ".", ".", "i", "n", "d", "e", "x", "(", ")">>,
      <<"@", "s", "c", "h", "e", "m", "a", "t", "i", "c", ".", "i", "n", "-", "d", "e", "x", "(", ")">>, <<"@", "s", "c", "h", "e", "m", "a", "t", "i", "c", ".", "i", "n", "d", "e", "x", "(", "a", ":", " ", "1", ")", " ", "x">>,
      <<"@", "s", "c", "h", "e", "m", "a", "t", "i", "c", ".", "i", "n", "d", "e", "x", "(", "a", ")", "(", "b", ")">>, <<"@", "s", "c", "h", "e", "m", "a", "t", "i", "c", ".", "g", "i", "n", "I", "n", "d", "e", "x", "(", "a", ":", " ", "1", ",", " ", "b", ")">>,
      <<"@", "s", "c", "h", "e", "m", "a", "t", "i", "c", ".", "I", "n", "d", "e", "x", "_", "2", "(", "f", "i", "e", "l", "d", "s", ":", " ", "[", "\"", "a", "\"", "]", ",", ")">>, <<>> }

Applications ==
    { Application("parseValue", lead \o JsonText(x, sep) \o trail, <<>>,
                  "json", x) :
        x \in ValuePool, sep \in {<<",">>, <<",", " ">>},
        lead \in Pads, trail \in Pads }
    \cup
    { Application("parseValue", lead \o <<"'">> \o c \o <<"'">>, <<>>,
                  "single", Str(c)) : lead \in Pads,
        c \in {<<>>, <<"a", "b", "c">>, <<"a", ",", " ", "b">>, <<"a", "c", "t", "i", "v", "e", " ", "=", " ", "t", "r", "u", "e">>} }
    \cup
    { Application("parseValue", t, <<>>, "raw", Undefined) :
        t \in { <<"a", "c", "t", "i", "v", "e", " ", "=", " ", "t", "r", "u", "e">>, <<" ", "s", "t", "a", "t", "u", "s", " ", "I", "N", " ", "(", "1", ",", " ", "2", ")", " ">>, <<"[", "1", ",", " ", "2">>, <<"{", "a", ":", " ", "1", "}">>,
              <<"t", "r", "u">>, <<"0", "1">>, <<"\"", "a">>, <<"1", " ", "2">>, <<>>, <<" ", " ">>, <<"a", "b", "c", " ">> } }
    \cup
    { Application("splitArguments", t, <<>>, "raw", Undefined) : t \in SplitTexts }
    \cup
    { Application("computeHash", <<>>, <<>>, "value", x) :
        x \in ValuePool \cup {Str(JsonText(y, <<",">>)) : y \in ValuePool} }
    \cup
    { Application("parseAnnotation", t, pre, "raw", Undefined) :
        t \in AnnotationTexts, pre \in Prefixes \cup {<<"c", "u", "s", "t", "o", "m">>} }

InitParse ==
    /\ pin \in Applications
    /\ pout = NotApplied
    \* no extract, no buildState, no call of the loader is running
    /\ prefix = <<>> /\ written = NotWritten /\ dmmf = <<>>
    /\ xpc = "idle" /\ mi = 0 /\ pending = <<>> /\ annotations = <<>>
    /\ ei = 0 /\ extractions = <<>> /\ xres = XPending
    /\ disk = <<>> /\ calls = <<>>
    /\ now = 0 /\ bpc = "idle" /\ snapshots = <<>>
    /\ gen = NoGenerate

\* ---- generate on one document and one disk

\* generator.config: the options given, with their values
GeneratorConfigs ==
    { [k \in keys |->
          CASE k = "autoIndexForeignKeys" -> (variant = 1)
            [] k = "annotationPrefix" -> <<"c", "u", "s", "t", "o", "m">>
            [] k = "stateFilePath" ->
                  IF variant = 1 THEN Path(FALSE, <<"..", "state.json">>)
                  ELSE EmptyPath] :
        keys \in SUBSET {"autoIndexForeignKeys", "annotationPrefix",
                         "stateFilePath"},
        variant \in 1..2 }

\* the options generate is called with
GenerateOptions ==
    { [datasources |-> datasources,
       generator |-> [config |-> config, output |-> output],
       schemaPath |-> schemaPath] :
        datasources \in
            { <<>>,
              <<[provider |-> Undefined]>>,
              <<[provider |-> Str(<<"p", "o", "s", "t", "g", "r", "e", "s", "q", "l">>)]>>,
              <<[provider |-> Str(<<"m", "y", "s", "q", "l">>)],
                [provider |-> Str(<<"p", "o", "s", "t", "g", "r", "e", "s", "q", "l">>)]>> },
        config \in GeneratorConfigs,
        output \in { Undefined, Null,
                     [t |-> "object",
                      value |-> Path(FALSE, <<".", "custom-output">>)] },
        schemaPath \in SchemaPaths }

\* the documents generate is called on
GenerateDocuments ==
    { <<>>,
      <<Model(Post, <<OneLineText>>), Model(User, <<>>)>>,
      <<Model(Post, <<<<"@", "c", "u", "s", "t", "o", "m", ".", "i", "n", "d", "e", "x", "(", "f", "i", "e", "l", "d", "s", ":", " ", "[", "\"", "a", "\"", "]", ")">>>>)>>,
      <<Model(User, <<<<"@", "s", "c", "h", "e", "m", "a", "t", "i", "c", ".", "i", "n", "d", "e", "x", "(", "f", "i", "e", "l", "d", "s", ":", " ", "[", "]", ")">>>>)>> }

InitGenerate ==
    /\ \E options \in GenerateOptions :
          gen = [NoGenerate EXCEPT !.pc = "start", !.options = options]
    /\ dmmf \in GenerateDocuments
    /\ \E file \in { Absent, File(<<"n", "u", "l", "l">>), File(<<"{", "\"", "i", "n", "d", "e", "x", "e", "s", "\"", ":", " ", "[", "]", "}">>) } :
          disk = [path \in { resolveFilePath(b, f) :
                               b \in SchemaPaths \ {EmptyPath},
                               f \in StatePaths \ {EmptyPath} } |-> file]
    /\ calls = <<>>
    /\ now \in ClockStarts
    /\ bpc = "idle"
    /\ snapshots = <<>>
    \* extract has not started, no function is applied on its own
    /\ prefix = <<>> /\ written = NotWritten
    /\ xpc = "idle" /\ mi = 0 /\ pending = <<>> /\ annotations = <<>>
    /\ ei = 0 /\ extractions = <<>> /\ xres = XPending
    /\ pin = NoApplication /\ pout = NotApplied

NextExtract ==
    \/ NextModel
    \/ ParseLine
    \/ GetAnnotationsReturn
    \/ ValidateAnnotation
    \/ ExtractReturn

NextLoad ==
    \/ \E c \in DOMAIN calls : LoadStateStart(c)
    \/ \E c \in DOMAIN calls : ResolveAndLoadFileStart(c)
    \/ \E c \in DOMAIN calls : ReadFileSettles(c)
    \/ \E c \in DOMAIN calls : LoadStateResume(c)

\* extract on one document
SpecExtract == InitExtract /\ [][NextExtract]_vars

\* calls of the loader on one disk
SpecLoad == InitLoad /\ [][NextLoad]_vars

\* two calls of the loader whose steps interleave
SpecLoadPair == InitLoadPair /\ [][NextLoad]_vars

\* calls of buildState on one document, while time passes
NextBuild ==
    \/ BuildStateCall
    \/ NextModel
    \/ ParseLine
    \/ GetAnnotationsReturn
    \/ ValidateAnnotation
    \/ ExtractReturn
    \/ BuildStateReturn
    \/ Tick

SpecBuild == InitBuild /\ [][NextBuild]_vars

\* one application of a function of annotation.utils or of computeHash
NextParse ==
    \/ ApplyParseValue
    \/ ApplySplitArguments
    \/ ApplyParseAnnotation
    \/ ApplyComputeHash

SpecParse == InitParse /\ [][NextParse]_vars

\* one call of generate
NextGenerate ==
    \/ GenerateStart
    \/ \E c \in DOMAIN calls : LoadStateStart(c)
    \/ \E c \in DOMAIN calls : ReadFileSettles(c)
    \/ \E c \in DOMAIN calls : LoadStateResume(c)
    \/ GenerateLoaded
    \/ NextModel
    \/ ParseLine
    \/ GetAnnotationsReturn
    \/ ValidateAnnotation
    \/ ExtractReturn
    \/ BuildStateReturn
    \/ GenerateBuilt
    \/ MkdirSettles

SpecGenerate == InitGenerate /\ [][NextGenerate]_vars

Init ==
    InitExtract \/ InitLoad \/ InitLoadPair \/ InitBuild \/ InitParse \/ InitGenerate
Next == NextExtract \/ NextLoad \/ NextBuild \/ NextParse \/ NextGenerate
Spec == Init /\ [][Next]_vars

-----------------------------------------------------------------------------
(* Properties of the annotation pipeline.                                  *)

\* the text of a message: its fragments concatenated
Text(message) == JoinStr(message, "")

\* the message has the fragment
HasFragment(message, fragment) == \E i \in DOMAIN message : message[i] = fragment

\* the texts `key: literal` of the written annotation, and its argument text
WrittenArgTexts == [i \in DOMAIN written.args |-> ArgText(written.args[i])]
WrittenArgsStr == Join(WrittenArgTexts, <<",", " ">>)

\* the record the written annotation denotes: each key with its JSON value
WrittenKeys == {written.args[i].k : i \in DOMAIN written.args}
WrittenRecord ==
    [k \in WrittenKeys |->
        written.args[CHOOSE i \in DOMAIN written.args : written.args[i].k = k].x]

\* the position in the argument text of the comma that follows argument i
RECURSIVE DelimiterAt(_, _)
DelimiterAt(texts, i) ==
    IF i = 0 THEN 0 - 1 ELSE DelimiterAt(texts, i - 1) + 2 + Len(texts[i])

\* the position in the scanned text of the comma that ended part k
RECURSIVE CutAt(_, _)
CutAt(parts, k) == IF k = 0 THEN 0 ELSE CutAt(parts, k - 1) + Len(parts[k]) + 1

\* the one-line document's annotation has been parsed
WrittenParsed == written # NotWritten /\ annotations # <<>>

\* the kind of a parsed annotation
KindOf(annotation) == ToJsString(annotation[K_schematic_type])

\* C1: splitArguments cuts the argument text of a well-formed annotation only
\* at the commas between its arguments, never at a comma inside a quoted
\* string or a bracketed literal.
C1_SplitsOnlyBetweenArguments ==
    WrittenParsed =>
        LET cuts == SplitScan(SplitStart, WrittenArgsStr).parts
        IN  {CutAt(cuts, k) : k \in DOMAIN cuts}
              \subseteq {DelimiterAt(WrittenArgTexts, i) :
                            i \in 1..(Len(written.args) - 1)}

\* C2: for a well-formed annotation line with distinct keys and JSON literals
\* as values, parseAnnotation returns exactly the written keys, each with the
\* JSON value of its literal, and the validator returns them unchanged when
\* it accepts the record.
C2_ParseReproducesArguments ==
    WrittenParsed =>
        /\ DOMAIN annotations[1] = WrittenKeys \cup {K_schematic_type, K_model}
        /\ \A k \in WrittenKeys : annotations[1][k] = WrittenRecord[k]
        /\ (xres.status = "returned" /\ xres.indexes # <<>>) =>
              /\ DOMAIN xres.indexes[1].v
                    = WrittenKeys \cup {K_schematic_type, K_model}
              /\ \A k \in WrittenKeys : xres.indexes[1].v[k] = WrittenRecord[k]

\* C3: extract throws 'Unknown annotation type: <kind>' for every parsed
\* annotation whose kind is not a key of the registry: it never returns when
\* there is one, and the error it throws at such an annotation is that one.
C3_UnregisteredKindFails ==
    xpc = "done" =>
        \A i \in DOMAIN annotations :
            KindOf(annotations[i]) \notin SchemaKeys =>
                /\ xres.status = "threw"
                /\ ei = i =>
                     Text(xres.err.message)
                        = "Unknown annotation type: " \o ToStr(KindOf(annotations[i]))

\* C4: every record extract returns carries the name of the model whose
\* documentation holds its annotation line.
C4_RecordCarriesOwningModel ==
    xres.status = "returned" =>
        \A n \in DOMAIN xres.indexes :
            \E m \in DOMAIN dmmf :
                LET lines == AnnotationLines(dmmf[m].documentation, prefix) IN
                \E l \in DOMAIN lines :
                    LET p == parseAnnotation(lines[l], prefix) IN
                    /\ p.ok
                    /\ xres.indexes[n].v[K_model] = Str(dmmf[m].name)
                    /\ \A k \in DOMAIN p.v \ {K_model} :
                          /\ k \in DOMAIN xres.indexes[n].v
                          /\ xres.indexes[n].v[k] = p.v[k]


-----------------------------------------------------------------------------
(* Properties of the loader and the file utilities.                        *)

\* a call of loadState, given both paths, has run to its end
LoadDone(c) ==
    /\ calls[c].fn = "loadState" /\ calls[c].pc = "done"
    /\ calls[c].stateFilePath # EmptyPath /\ calls[c].schemaPath # EmptyPath

\* the state on disk of the file the call's paths resolve to
FileOf(c) == disk[resolveFilePath(calls[c].schemaPath, calls[c].stateFilePath)]

\* the call reads the disk (no test double)
ReadsDisk(c) == calls[c].read.mode = "fs"

\* the message ends with the fragments
EndsWith(message, fragments) ==
    /\ Len(fragments) <= Len(message)
    /\ SubSeq(message, Len(message) - Len(fragments) + 1, Len(message)) = fragments

\* C5: when the read of loadState succeeds with a falsy value, loadState
\* rejects with the message exactly `State file is empty: {stateFilePath}`.
C5_EmptyReadMessage ==
    \A c \in DOMAIN calls :
        (LoadDone(c) /\ calls[c].settled.ok /\ Falsy(calls[c].settled.v)) =>
            /\ calls[c].out.status = "rejected"
            /\ Text(calls[c].out.err.message)
                  = "State file is empty: " \o PathText(calls[c].stateFilePath)

\* C6: on a file that is missing, unreadable or malformed, loadState rejects
\* with a message containing 'State file is empty' or 'There was an error
\* loading the state file'; whatever loadState resolves with is truthy, and
\* is the parsed content of the file when the disk was read.
C6_LoadRejectsOrResolvesContent ==
    \A c \in DOMAIN calls :
        LoadDone(c) =>
            /\ (ReadsDisk(c) /\ (FileOf(c).kind # "file"
                                 \/ ~JSONParse(FileOf(c).contents).ok)) =>
                  /\ calls[c].out.status = "rejected"
                  /\ \/ HasFragment(calls[c].out.err.message, "State file is empty")
                     \/ HasFragment(calls[c].out.err.message,
                                    "There was an error loading the state file")
            /\ calls[c].out.status = "resolved" =>
                  /\ calls[c].out.v.t \notin {"undefined", "null"}
                  /\ calls[c].out.v \notin {Bool(FALSE), Num(0), Str(<<>>)}
                  /\ ReadsDisk(c) =>
                        /\ FileOf(c).kind = "file"
                        /\ JSONParse(FileOf(c).contents).ok
                        /\ calls[c].out.v = JSONParse(FileOf(c).contents).v

\* a call of loadState on a missing file was rejected
C6_MissingFileRejected ==
    \E c \in DOMAIN calls :
        /\ LoadDone(c) /\ ReadsDisk(c) /\ FileOf(c) = Absent
        /\ calls[c].out.status = "rejected"
        /\ HasFragment(calls[c].out.err.message, "State file is empty")
        /\ HasFragment(calls[c].out.err.message,
                       "There was an error loading the state file")

\* C7 as stated: given both paths and a snapshot file that does not exist,
\* loadState completes with the result undefined.
C7_AbsentFileResolvesUndefined ==
    \A c \in DOMAIN calls :
        (LoadDone(c) /\ ReadsDisk(c) /\ FileOf(c) = Absent) =>
            calls[c].out = Resolved(Undefined)

\* C7: given both paths and a snapshot file that does not exist, loadState
\* never completes with undefined: it rejects, with a message that ends with
\* `State file is empty: {stateFilePath}`.
C7_AbsentFileRejects ==
    \A c \in DOMAIN calls :
        (LoadDone(c) /\ ReadsDisk(c) /\ FileOf(c) = Absent) =>
            /\ calls[c].out.status = "rejected"
            /\ EndsWith(calls[c].out.err.message,
                        <<"State file is empty", ": ",
                          PathText(calls[c].stateFilePath)>>)

\* a call of loadState with a relative path to a missing file was rejected
C7_AbsentRelativeRejected ==
    \E c \in DOMAIN calls :
        /\ LoadDone(c) /\ ReadsDisk(c) /\ FileOf(c) = Absent
        /\ calls[c].stateFilePath = Path(FALSE, <<"..", "state.json">>)
        /\ calls[c].out.status = "rejected"
        /\ calls[c].reads = 1

\* C8: when the read of loadState throws the cause c, loadState rejects with
\* the message exactly `There was an error loading the state file:
\* {stateFilePath}. {cause}`, the cause being c.message for an Error and the
\* string form of c otherwise, the path being the one given.
C8_WrappedCauseMessage ==
    \A c \in DOMAIN calls :
        (LoadDone(c) /\ ~calls[c].settled.ok) =>
            LET cause == calls[c].settled.err IN
            /\ calls[c].out.status = "rejected"
            /\ Text(calls[c].out.err.message)
                  = "There was an error loading the state file: "
                    \o PathText(calls[c].stateFilePath) \o ". "
                    \o (IF cause.name = "NotAnError"
                        THEN ToStr(ToJsString(cause.value))
                        ELSE Text(cause.message))

\* a read that threw a string was wrapped, under the relative path given
C8_StringCauseWrapped ==
    \E c \in DOMAIN calls :
        /\ LoadDone(c) /\ ~calls[c].settled.ok
        /\ calls[c].settled.err.name = "NotAnError"
        /\ calls[c].stateFilePath = Path(FALSE, <<".", ".schematic-state.json">>)
        /\ Text(calls[c].out.err.message)
              = "There was an error loading the state file: ./.schematic-state.json. String error message"

\* a call of resolveAndLoadFile has settled: a direct call that is done, or
\* the call loadState made and awaited
ReadSettled(c) ==
    \/ calls[c].fn = "resolveAndLoadFile" /\ calls[c].pc = "done"
    \/ calls[c].fn = "loadState" /\ ReadsDisk(c) /\ calls[c].reads = 1
       /\ calls[c].pc \in {"await", "done"}

\* C9: resolveAndLoadFile never rejects; it resolves with undefined when the
\* file is absent, unreadable or (parse = 'json') not JSON, with the raw text
\* when no parse is asked, and with the parsed value otherwise.
C9_ReadNeverRejects ==
    \A c \in DOMAIN calls :
        ReadSettled(c) =>
            LET f == FileOf(c)
                json == JSONParse(f.contents)
            IN  /\ calls[c].settled.ok
                /\ calls[c].fn = "resolveAndLoadFile" =>
                      calls[c].out.status = "resolved"
                      /\ calls[c].out.v = calls[c].settled.v
                /\ calls[c].settled.v =
                      IF f.kind # "file" THEN Undefined
                      ELSE IF calls[c].parse # "json" THEN Str(f.contents)
                      ELSE IF json.ok THEN json.v
                      ELSE Undefined

\* direct calls resolved with undefined on an unreadable file
C9_DeniedResolvesUndefined ==
    \E c \in DOMAIN calls :
        /\ calls[c].fn = "resolveAndLoadFile" /\ calls[c].pc = "done"
        /\ FileOf(c) = Denied
        /\ calls[c].out = Resolved(Undefined)

-----------------------------------------------------------------------------
(* Properties of the index validator.                                      *)

\* the annotation is of kind 'index'
IndexKind(annotation) == annotation[K_schematic_type] = Str(K_index)

\* the key is present and its value is not a string
PresentNotString(annotation, key) ==
    key \in DOMAIN annotation /\ annotation[key].t # "string"

\* `fields` is missing, not an array of strings, or empty
BadFields(annotation) ==
    \/ K_fields \notin DOMAIN annotation
    \/ annotation[K_fields].t # "array"
    \/ annotation[K_fields].v = <<>>
    \/ \E n \in DOMAIN annotation[K_fields].v :
          annotation[K_fields].v[n].t # "string"

\* `type` is present and not one of 'id', 'unique', 'normal'
BadType(annotation) ==
    /\ K_type \in DOMAIN annotation
    /\ annotation[K_type] \notin {Str(<<"i", "d">>),
                                  Str(<<"u", "n", "i", "q", "u", "e">>),
                                  Str(<<"n", "o", "r", "m", "a", "l">>)}

\* the keys outside {kind, model, name, fields, type, where}
ExtraKeys(annotation) ==
    DOMAIN annotation
      \ {K_schematic_type, K_model, K_name, K_fields, K_type, K_where}

\* the thrown error has an issue at the field
Names(err, field) == \E issue \in err.issues : issue.path = field

-----------------------------------------------------------------------------
(* Properties of extract's result and of buildState.                       *)

\* a record the index validator accepts, of kind 'index'
IndexRecord(r) ==
    /\ r.t = "record"
    /\ K_schematic_type \in DOMAIN r.v
    /\ r.v[K_schematic_type] = Str(K_index)
    /\ K_model \in DOMAIN r.v /\ r.v[K_model].t = "string"
    /\ ~BadFields(r.v) /\ ~BadType(r.v)
    /\ ~PresentNotString(r.v, K_name) /\ ~PresentNotString(r.v, K_where)
    /\ ExtraKeys(r.v) = {}

\* C11: every element of `indexes`, in every value extract returns and in
\* every snapshot buildState returns, is a validated record whose kind is
\* 'index'.
C11_IndexesHoldOnlyIndexRecords ==
    /\ xres.status = "returned" =>
          \A n \in DOMAIN xres.indexes : IndexRecord(xres.indexes[n])
    /\ \A b \in DOMAIN snapshots :
          snapshots[b].ok =>
              \A n \in DOMAIN snapshots[b].v[K_indexes] :
                  IndexRecord(snapshots[b].v[K_indexes][n])

\* a snapshot was built from two annotations, one of which is no index
C11_OtherKindFilteredOut ==
    /\ snapshots # <<>> /\ snapshots[1].ok
    /\ Len(annotations) = 2
    /\ \E i \in DOMAIN annotations : ~IndexKind(annotations[i])
    /\ Len(snapshots[1].v[K_indexes]) = 1


\* the filtered annotation lines of the whole document, model after model
RECURSIVE DocumentLines(_)
DocumentLines(k) ==
    IF k = 0 THEN <<>>
    ELSE DocumentLines(k - 1) \o
         (IF dmmf[k].documentation # <<>>
          THEN AnnotationLines(dmmf[k].documentation, prefix) ELSE <<>>)

\* a parsed annotation that the registry or its contract turns down
Refused(annotation) ==
    \/ KindOf(annotation) \notin SchemaKeys
    \/ ~IndexRecord(Rec(annotation))

\* C12: extract is all-or-nothing: when an annotation line of any model fails
\* parsing, kind lookup or validation, extract throws and returns nothing; a
\* result it returns holds one record for every annotation line of the
\* document.
C12_ExtractIsAllOrNothing ==
    LET lines == DocumentLines(Len(dmmf)) IN
    /\ (xpc = "done" /\ \/ \E l \in DOMAIN lines :
                              ~parseAnnotation(lines[l], prefix).ok
                         \/ \E i \in DOMAIN annotations : Refused(annotations[i]))
          => xres.status = "threw" /\ xres.indexes = <<>>
    /\ xres.status = "returned" =>
          /\ Len(xres.indexes) = Len(lines)
          /\ \A l \in DOMAIN lines : parseAnnotation(lines[l], prefix).ok
    /\ \A b \in DOMAIN snapshots :
          snapshots[b].ok => Len(snapshots[b].v[K_indexes]) = Len(lines)

\* C13: the kind of the record parseAnnotation returns for a well-formed line
\* is the identifier written between the prefix and the parenthesis, case
\* preserved, whatever arguments the line carries.
C13_KindIsWrittenIdentifier ==
    WrittenParsed =>
        /\ K_schematic_type \in DOMAIN annotations[1]
        /\ annotations[1][K_schematic_type] = Str(written.kind)


-----------------------------------------------------------------------------
(* Properties of parseAnnotation, splitArguments and parseValue.           *)

\* the line given to parseAnnotation, trimmed, begins with @<prefix>.
BeginsWithPrefix ==
    LET line == Trim(pin.text)
        token == <<"@">> \o pin.prefix \o <<".">>
    IN  /\ Len(token) <= Len(line)
        /\ \A i \in DOMAIN token : line[i] = token[i]

\* what follows the prefix in the trimmed line
Remainder ==
    LET line == Trim(pin.text)
    IN  SubSeq(line, Len(pin.prefix) + 3, Len(line))

\* the remainder is an identifier, an opening parenthesis, any text and a
\* closing parenthesis, and nothing else
CallForm ==
    \E n \in 1..(Len(Remainder) - 2) :
        /\ \A i \in 1..n : Remainder[i] \in WordChars
        /\ Remainder[n + 1] = "("
        /\ Remainder[Len(Remainder)] = ")"

\* C14: parseAnnotation returns one record or throws: 'Annotation must start
\* with @<prefix>.' when the trimmed line does not begin with @<prefix>.,
\* 'Invalid annotation format' when what follows the prefix is not an
\* identifier and a parenthesized text anchored at both ends, and a record
\* with its kind otherwise.
C14_RecordOrFormatError ==
    (pin.fn = "parseAnnotation" /\ pout.done) =>
        IF ~BeginsWithPrefix
        THEN /\ ~pout.r.ok
             /\ Text(pout.r.err.message)
                  = "Annotation must start with @" \o ToStr(pin.prefix)
                      \o ". Got: " \o ToStr(pin.text)
        ELSE IF ~CallForm
        THEN /\ ~pout.r.ok
             /\ Text(pout.r.err.message)
                  = "Invalid annotation format: " \o ToStr(pin.text)
                      \o ". Expected format: @" \o ToStr(pin.prefix)
                      \o ".<type>(<args>)"
        ELSE /\ pout.r.ok
             /\ K_schematic_type \in DOMAIN pout.r.v
             /\ pout.r.v[K_schematic_type].t = "string"

\* @schematic.index, without parentheses, was refused for its format
C14_NoParenthesesRefused ==
    /\ pin.fn = "parseAnnotation" /\ pout.done
    /\ pin.text = <<"@", "s", "c", "h", "e", "m", "a", "t", "i", "c", ".", "i", "n", "d", "e", "x">>
    /\ BeginsWithPrefix /\ ~CallForm
    /\ ~pout.r.ok
    /\ pout.r.err.message[1] = "Invalid annotation format: "


\* C15: for a string content s without quote characters, parseValue of the
\* single-quoted literal 's' returns the string s, the value parseValue
\* returns for the double-quoted literal "s".
C15_SingleQuotedIsString ==
    (pin.fn = "parseValue" /\ pin.how = "single" /\ pout.done) =>
        /\ pout.r.v = pin.x
        /\ pout.r.v = parseValue(<<"\"">> \o pin.x.v \o <<"\"">>)

C19_NoTrailingEmptySegment ==
    (pin.fn = "splitArguments" /\ pout.done) =>
        LET segments == pout.r.v IN
        segments # <<>> => Trim(segments[Len(segments)]) # <<>>


\* C16: extract on a document whose one annotation has its argument span
\* spread over several lines returns the record it returns for the annotation
\* written on one line.
C16_MultiLineAnnotationAccepted ==
    (xpc = "done" /\ Len(dmmf) = 1 /\ dmmf[1].documentation = MultiLineText) =>
        /\ xres.status = "returned"
        /\ Len(xres.indexes) = 1
        /\ xres.indexes[1]
             = Rec(TagModel(dmmf[1].name, parseAnnotation(OneLineText, prefix).v))

\* C18: a record whose fields holds the same name twice fails validation,
\* and an accepted record's fields is the array written in the annotation.
C18_FieldsAreUniqueChecked ==
    (xpc = "done" /\ written # NotWritten /\ written.kind = K_index
        /\ K_fields \in WrittenKeys
        /\ \A k \in WrittenKeys : k \in {K_fields, K_name}) =>
        LET fields == WrittenRecord[K_fields] IN
        /\ (fields.t = "array" /\ \E i, j \in DOMAIN fields.v :
                                      i # j /\ fields.v[i] = fields.v[j])
              => /\ xres.status = "threw"
                 /\ xres.err.name = "ZodError"
        /\ (xres.status = "returned" /\ xres.indexes # <<>>)
              => xres.indexes[1].v[K_fields] = fields


\* the code unit of a character of a timestamp
CharCode ==
    ("-" :> 45) @@ ("." :> 46) @@ ("0" :> 48) @@ ("1" :> 49) @@ ("2" :> 50) @@
    ("3" :> 51) @@ ("4" :> 52) @@ ("5" :> 53) @@ ("6" :> 54) @@ ("7" :> 55) @@
    ("8" :> 56) @@ ("9" :> 57) @@ (":" :> 58) @@ ("T" :> 84) @@ ("Z" :> 90)

\* a <= b in the order of strings
LexLeq(a, b) ==
    \/ /\ Len(a) <= Len(b)
       /\ \A i \in DOMAIN a : a[i] = b[i]
    \/ \E i \in DOMAIN a \cap DOMAIN b :
          /\ \A j \in 1..(i - 1) : a[j] = b[j]
          /\ CharCode[a[i]] < CharCode[b[i]]

\* C20: two calls of buildState on the same document and config end alike,
\* and the snapshots they return have the same schemaHash and the same
\* indexes; the later generatedAt is lexically greater than or equal to the
\* earlier one, and different when a millisecond or more lies between the
\* calls; a snapshot has the keys generatedAt, schemaHash and indexes only.
C20_BuildStateIsIdempotent ==
    /\ \A b \in DOMAIN snapshots :
          snapshots[b].ok =>
              DOMAIN snapshots[b].v = {K_generatedAt, K_schemaHash, K_indexes}
    /\ \A b1, b2 \in DOMAIN snapshots :
          b1 < b2 =>
              /\ snapshots[b1].ok = snapshots[b2].ok
              /\ snapshots[b1].ok =>
                    LET s1 == snapshots[b1].v
                        s2 == snapshots[b2].v
                    IN  /\ s1[K_schemaHash] = s2[K_schemaHash]
                        /\ s1[K_indexes] = s2[K_indexes]
                        /\ LexLeq(s1[K_generatedAt].v, s2[K_generatedAt].v)
                        /\ snapshots[b2].at - snapshots[b1].at >= 1
                              => s1[K_generatedAt] # s2[K_generatedAt]

\* two snapshots with an index, returned on either side of the turn of a
\* second
C20_SnapshotsAcrossSecond ==
    /\ Len(snapshots) = 2 /\ snapshots[1].ok /\ snapshots[2].ok
    /\ snapshots[1].at = 999 /\ snapshots[2].at = 1000
    /\ snapshots[1].v[K_indexes] # <<>>
    /\ snapshots[1].v[K_generatedAt] # snapshots[2].v[K_generatedAt]


\* JSON.stringify(x)
Serialized(x) == Str(JsonText(x, <<",">>))

-----------------------------------------------------------------------------
(* Further properties of loadState.                                        *)

\* C22: loadState checks its arguments before any other step: with an empty
\* stateFilePath it rejects with 'State file path is required', with an empty
\* schemaPath and a stateFilePath it rejects with 'Schema path is required';
\* neither error is wrapped, and no read is issued.
C22_ArgumentsCheckedFirst ==
    \A c \in DOMAIN calls :
        (calls[c].fn = "loadState"
            /\ (calls[c].stateFilePath = EmptyPath \/ calls[c].schemaPath = EmptyPath)) =>
            /\ calls[c].pc \in {"start", "done"}
            /\ calls[c].reads = 0
            /\ calls[c].pc = "done" =>
                  /\ calls[c].out.status = "rejected"
                  /\ Text(calls[c].out.err.message)
                        = IF calls[c].stateFilePath = EmptyPath
                          THEN "State file path is required"
                          ELSE "Schema path is required"

\* a call with both paths empty was rejected for its stateFilePath
C22_BothEmptyRejectedForStatePath ==
    \E c \in DOMAIN calls :
        /\ calls[c].fn = "loadState" /\ calls[c].pc = "done"
        /\ calls[c].stateFilePath = EmptyPath /\ calls[c].schemaPath = EmptyPath
        /\ calls[c].out.status = "rejected"
        /\ calls[c].out.err.message = <<"State file path is required">>


-----------------------------------------------------------------------------
(* Properties of extractConfigFromSchema and of generate.                  *)

\* the options of generator.config
ConfigKeys == {"autoIndexForeignKeys", "annotationPrefix", "stateFilePath"}

GenerateSteps ==
    <<"extractConfigFromSchema", "loadState", "buildState", "mkdir">>

\* loadState was called, buildState was called, mkdir was called
LoadCalled == calls # <<>>
BuildCalled == xpc # "idle" \/ snapshots # <<>>
MkdirCalled == gen.mkdir # <<>>

\* C24: generate extracts the config, loads the previous state, builds the
\* incoming state and creates the output directory, in that order, and stops
\* at the first failure: when the config throws nothing else runs, when
\* loadState rejects generate rejects with its error and neither buildState
\* nor mkdir runs, and mkdir runs only after load and build succeeded.
C24_GenerateIsOrderedAndFailFast ==
    /\ gen.steps = SubSeq(GenerateSteps, 1, Len(gen.steps))
    /\ LoadCalled <=> (Len(gen.steps) >= 2)
    /\ BuildCalled <=> (Len(gen.steps) >= 3)
    /\ MkdirCalled <=> (Len(gen.steps) >= 4)
    /\ (gen.pc \notin {"idle", "start"} /\ ~gen.config.ok) =>
          /\ ~LoadCalled /\ ~BuildCalled /\ ~MkdirCalled
          /\ gen.pc = "done" /\ gen.out.status = "rejected"
          /\ Text(gen.out.err.message) = "Database provider not found"
    /\ BuildCalled =>
          /\ calls[1].pc = "done" /\ calls[1].out.status = "resolved"
    /\ (LoadCalled /\ calls[1].out.status = "rejected") =>
          /\ ~BuildCalled /\ ~MkdirCalled
          /\ gen.pc = "done" =>
                /\ gen.out.status = "rejected"
                /\ gen.out.err = calls[1].out.err
    /\ MkdirCalled =>
          /\ calls[1].out.status = "resolved"
          /\ snapshots # <<>> /\ snapshots[1].ok
          /\ gen.mkdir = <<gen.config.v.outputPath>>

\* loadState rejected for a missing state file and generate rejected with
\* that error, before any build
C24_LoadRejectionEndsGenerate ==
    /\ gen.pc = "done" /\ LoadCalled
    /\ calls[1].out.status = "rejected"
    /\ calls[1].reads = 1
    /\ gen.out = Rejected(calls[1].out.err)
    /\ ~BuildCalled /\ ~MkdirCalled


-----------------------------------------------------------------------------
(* Further properties of extract.                                          *)

\* the filtered annotation lines of the first k models, each with the name
\* of its model, in document order
RECURSIVE NamedLines(_)
NamedLines(k) ==
    IF k = 0 THEN <<>>
    ELSE LET lines == IF dmmf[k].documentation # <<>>
                      THEN AnnotationLines(dmmf[k].documentation, prefix)
                      ELSE <<>>
         IN  NamedLines(k - 1) \o
             [l \in DOMAIN lines |-> [name |-> dmmf[k].name, line |-> lines[l]]]

\* the errors of one line taken alone: of its parse, else of the lookup of
\* its kind, else of its validation; none for a line without fault
LineFault(named) ==
    LET parsed == parseAnnotation(named.line, prefix) IN
    IF ~parsed.ok THEN <<parsed.err>>
    ELSE LET annotation == TagModel(named.name, parsed.v) IN
         IF KindOf(annotation) \notin SchemaKeys
         THEN <<NewError(<<"Unknown annotation type", ": ",
                           ToStr(KindOf(annotation))>>)>>
         ELSE LET validated == validate(annotation) IN
              IF ~validated.ok THEN <<validated.err>> ELSE <<>>

\* C25: extract handles the annotation lines one at a time in document order,
\* parse, lookup and validation of a line coming before the next line: the
\* error it throws is the error of the earliest faulty line of the document.
C25_EarliestFaultIsReported ==
    (xpc = "done" /\ xres.status = "threw") =>
        LET lines == NamedLines(Len(dmmf)) IN
        \E l \in DOMAIN lines :
            /\ \A e \in 1..(l - 1) : LineFault(lines[e]) = <<>>
            /\ LineFault(lines[l]) = <<xres.err>>


-----------------------------------------------------------------------------
(* Calls of the loader in flight together.                                 *)

\* what the call settles to when it runs alone on the disk
Alone(c) ==
    LET call == calls[c]
        read == resolveAndLoadFile(disk, [basePath |-> call.schemaPath,
                                          filePath |-> call.stateFilePath,
                                          parse |-> call.parse])
        tried == LoadTry(call.stateFilePath, read)
    IN  IF call.fn = "resolveAndLoadFile" THEN Resolved(read.v)
        ELSE IF call.stateFilePath = EmptyPath
        THEN Rejected(NewError(<<"State file path is required">>))
        ELSE IF call.schemaPath = EmptyPath
        THEN Rejected(NewError(<<"Schema path is required">>))
        ELSE IF tried.ok THEN Resolved(tried.v)
        ELSE Rejected(LoadCatch(call.stateFilePath, tried.err))

\* C26: calls of the loader are independent: of two calls in flight together,
\* whatever the order of their steps, each issues at most one read, exactly
\* one once it has passed its argument checks, and settles to what it settles
\* to when it runs alone on the same disk.
C26_CallsAreIndependent ==
    \A c \in DOMAIN calls :
        /\ calls[c].reads <= 1
        /\ calls[c].pc \in {"readFile", "await"} => calls[c].reads = 1
        /\ calls[c].pc = "done" =>
              /\ calls[c].out = Alone(c)
              /\ calls[c].reads = IF calls[c].fn = "loadState"
                                      /\ EmptyPath \in {calls[c].stateFilePath,
                                                        calls[c].schemaPath}
                                  THEN 0 ELSE 1

\* one call has resolved with the content of its file while the other, on
\* an absent file, is still suspended at its read
C26_OneSettledOneSuspended ==
    /\ DOMAIN calls = 1..2
    /\ calls[1].fn = "loadState" /\ calls[2].fn = "loadState"
    /\ calls[1].pc = "done" /\ calls[1].out.status = "resolved"
    /\ calls[2].pc = "readFile" /\ calls[2].reads = 1
    /\ FileOf(1).kind = "file" /\ FileOf(2).kind = "absent"


-----------------------------------------------------------------------------
(* Further properties of splitArguments.                                   *)

\* parts.join(',')
RECURSIVE JoinSegments(_)
JoinSegments(parts) ==
    IF parts = <<>> THEN <<>>
    ELSE IF Len(parts) = 1 THEN parts[1]
    ELSE parts[1] \o <<",">> \o JoinSegments(Tail(parts))

\* C27: splitArguments loses and reorders nothing: the segments it returns,
\* joined with ',', are a prefix of its input, and what the input has after
\* that prefix is empty, white space, or one comma followed by white space.
C27_SegmentsRejoinToInput ==
    (pin.fn = "splitArguments" /\ pout.done) =>
        LET joined == JoinSegments(pout.r.v)
            rest == SubSeq(pin.text, Len(joined) + 1, Len(pin.text))
        IN  /\ StartsWith(pin.text, joined)
            /\ \/ Trim(rest) = <<>>
               \/ Head(rest) = "," /\ Trim(Tail(rest)) = <<>>

\* an input ending with a comma and a space: both are left out of the segments
C27_TrailingCommaLeftOut ==
    /\ pin.fn = "splitArguments" /\ pout.done
    /\ Len(pout.r.v) = 2
    /\ SubSeq(pin.text, Len(JoinSegments(pout.r.v)) + 1, Len(pin.text)) = <<",", " ">>

\* the quote character active after the first i characters of s ("" for none)
RECURSIVE QuoteAfter(_, _)
QuoteAfter(s, i) ==
    IF i = 0 THEN ""
    ELSE LET before == QuoteAfter(s, i - 1) IN
         IF s[i] \in {"\"", "'"} /\ before = "" THEN s[i]
         ELSE IF s[i] = before THEN ""
         ELSE before

\* openers minus closers, of either kind, outside quotes among the first i
\* characters of s
DepthAfter(s, i) ==
    Cardinality({j \in 1..i : s[j] \in {"[", "{"} /\ QuoteAfter(s, j) = ""})
    - Cardinality({j \in 1..i : s[j] \in {"]", "}"} /\ QuoteAfter(s, j) = ""})

\* the commas of s outside quotes at depth exactly zero
DelimiterCommas(s) ==
    {i \in DOMAIN s : s[i] = "," /\ QuoteAfter(s, i) = "" /\ DepthAfter(s, i) = 0}

\* s from position from on, cut at the positions of D; a blank last piece dropped
RECURSIVE CutsFrom(_, _, _)
CutsFrom(s, from, D) ==
    IF D = {}
    THEN (IF Trim(SubSeq(s, from, Len(s))) # <<>>
          THEN <<SubSeq(s, from, Len(s))>> ELSE <<>>)
    ELSE LET d == CHOOSE x \in D : \A y \in D : x <= y
         IN  <<SubSeq(s, from, d - 1)>> \o CutsFrom(s, d + 1, D \ {d})

\* C28: the nesting depth of splitArguments is one signed count over both
\* kinds of bracket, kept outside quotes only: the input is cut at exactly the
\* commas met with no quote open and as many openers as closers before them.
C28_CutAtDepthZeroCommas ==
    (pin.fn = "splitArguments" /\ pout.done) =>
        pout.r.v = CutsFrom(pin.text, 1, DelimiterCommas(pin.text))

\* a closer without opener: a later comma outside quotes is no delimiter,
\* and a comma after as many openers is one again
C28_NegativeDepthSuppressesSplit ==
    /\ pin.fn = "splitArguments" /\ pout.done
    /\ \E i, j \in DOMAIN pin.text :
          /\ i < j /\ pin.text[i] = "," /\ pin.text[j] = ","
          /\ QuoteAfter(pin.text, i) = "" /\ DepthAfter(pin.text, i) < 0
          /\ j \in DelimiterCommas(pin.text)
    /\ \E k \in DOMAIN pout.r.v : \E i \in DOMAIN pout.r.v[k] : pout.r.v[k][i] = ","


-----------------------------------------------------------------------------
(* The order of the records of extract, and its line filter.               *)

\* C29: extract keeps the order and the number of the annotations: `indexes`
\* holds one record for every annotation line of kind index, model after
\* model in the order of the document and line after line within a model;
\* equal annotations give equal records, none is dropped or moved, and a
\* model without documentation or a line that is no annotation adds none.
C29_IndexesInDocumentOrder ==
    xres.status = "returned" =>
        LET lines == NamedLines(Len(dmmf))
            annotation(l) ==
                TagModel(lines[l].name, parseAnnotation(lines[l].line, prefix).v)
            kept == {l \in DOMAIN lines : KindOf(annotation(l)) = K_index}
        IN  /\ Len(xres.indexes) = Cardinality(kept)
            /\ \A l \in kept :
                  xres.indexes[Cardinality({e \in kept : e <= l})]
                     = validate(annotation(l)).v

\* a document of a model with a comment line and an annotation, followed by
\* a model with the same annotation twice: three records, the last two equal
C29_DuplicateRecordsKept ==
    /\ xres.status = "returned"
    /\ Len(dmmf) = 2 /\ dmmf[1].name # dmmf[2].name
    /\ Len(SplitOn(dmmf[1].documentation, "\n")) = 2
    /\ Len(AnnotationLines(dmmf[1].documentation, prefix)) = 1
    /\ Len(xres.indexes) = 3
    /\ xres.indexes[1].v[K_model] = Str(dmmf[1].name)
    /\ xres.indexes[2] = xres.indexes[3]
    /\ xres.indexes[2].v[K_model] = Str(dmmf[2].name)


\* the line passes the filter of getAnnotations, and has no dot after the prefix
PrefixWithoutDot(line) ==
    /\ StartsWith(Trim(line), <<"@">> \o prefix)
    /\ ~StartsWith(Trim(line), <<"@">> \o prefix \o <<".">>)

\* the documentation lines of the document that have the prefix without its dot
LinesWithoutDot ==
    UNION { LET lines == SplitOn(dmmf[m].documentation, "\n")
            IN  {lines[l] : l \in {e \in DOMAIN lines : PrefixWithoutDot(lines[e])}} :
            m \in DOMAIN dmmf }

\* C30 as stated: whenever the document has a line with the prefix and no dot
\* after it, extract throws the 'Annotation must start with' error.
C30_PrefixWithoutDotAlwaysReported ==
    (xpc = "done" /\ LinesWithoutDot # {}) =>
        /\ xres.status = "threw"
        /\ xres.err.message[1] = "Annotation must start with @"

\* C30, amended: a line with the prefix and no dot after it is never ignored:
\* it is selected and extract throws, returning nothing.  The error is the
\* parse error of the earliest selected line that fails to parse: the
\* 'Annotation must start with' error of the line itself when no selected
\* line before it fails to parse.
C30_PrefixWithoutDotFailsExtract ==
    LET lines == DocumentLines(Len(dmmf)) IN
    /\ LinesWithoutDot \subseteq {lines[l] : l \in DOMAIN lines}
    /\ (xpc = "done" /\ LinesWithoutDot # {}) =>
          /\ xres.status = "threw" /\ xres.indexes = <<>>
          /\ \E l \in DOMAIN lines :
                /\ \A e \in 1..(l - 1) : parseAnnotation(lines[e], prefix).ok
                /\ ~parseAnnotation(lines[l], prefix).ok
                /\ xres.err = parseAnnotation(lines[l], prefix).err
                /\ PrefixWithoutDot(lines[l]) =>
                      xres.err.message = <<"Annotation must start with @",
                                           ToStr(prefix), ". Got: ",
                                           ToStr(lines[l])>>

\* a model whose annotation is accepted, followed by a model documented with
\* the bare prefix: extract has thrown the error of the second model's line
C30_BarePrefixReported ==
    /\ xpc = "done" /\ xres.status = "threw"
    /\ Len(dmmf) = 2
    /\ Len(annotations) = 1 /\ KindOf(annotations[1]) = K_index
    /\ dmmf[2].documentation = <<"@">> \o prefix
    /\ xres.err.message[1] = "Annotation must start with @"

====
